---- MODULE Spec2Model ----
(***************************************************************************)
(* Model of the real-time chat core of GoalGetter:                         *)
(*   - ChatAccessControl.can_access_chat   (api/routes/chat.py)            *)
(*   - websocket_chat_endpoint             (api/routes/chat.py)            *)
(*   - ConnectionManager                   (core/websocket_manager.py)     *)
(*   - ContextService                      (services/context_service.py)   *)
(* Time is counted in minutes for the access gate and in seconds for the   *)
(* connection registry, as in the source.  An optional value (Python None  *)
(* or a value) is a sequence of length 0 or 1.                             *)
(***************************************************************************)
EXTENDS Integers, Sequences, FiniteSets, TLC

VARIABLES
    \* ---- meeting store and clock (read by the access gate)
    meetings,       \* db.meetings: sequence of meeting documents, _id = index
    now,            \* datetime.utcnow(), minutes
    \* ---- one call of the access gate
    access,         \* None or the dict returned by can_access_chat
    gateArgs,       \* None or the arguments of that call and where it was made
    \* ---- users collection
    dbPhase,        \* users[u1].phase as stored
    \* ---- websocket_chat_endpoint, one connection of user u1
    hpc,            \* "start", "recv" (awaiting receive_json), "stream", "closed"
    user_phase,     \* the endpoint's local user_phase (None before authentication)
    registered,     \* the socket is in the connection registry
    extract_calls,  \* calls of extract_and_save_context made by the finally block
    active_goal_id, \* data.get("active_goal_id") of the message being answered
    tool_round,
    round_events,   \* events consumed from the stream of the current round
    tool_calls_this_round,  \* len(tool_calls_this_round)
    full_response,
    tokens_used,
    chat_messages,  \* documents inserted into db.chat_messages since the turn
                    \* (or the admission) began; _id = index among them
    goals,          \* db.goals of u1: goal id -> None or the document
    sent,           \* outbound events sent by the last step of the endpoint
    \* ---- what happened in the current turn (observation only)
    step,           \* the last step the endpoint took
    stream_calls,   \* calls of llm_service.stream_message in the turn
    exit_kind,      \* how the last turn ended, "running" while it has not
    peer_closed,    \* the client has closed the socket and the endpoint has
                    \* not yet met the exception this raises
    \* ---- ConnectionManager
    active_connections,     \* dict user id -> set of sockets
    connection_info,        \* dict socket -> metadata
    connection_attempts,    \* _connection_attempts: dict user id -> timestamps
    ip_connection_attempts, \* _ip_connection_attempts: dict ip -> timestamps
    connecting,     \* dict socket -> arguments of its connect call that is
                    \* awaiting websocket.accept()
    clock,          \* datetime.utcnow(), seconds
    reg_ret,        \* the last value returned by the registry
    reg_call,       \* the last call made when calls are made one at a time
    attempts_made,  \* dict identifier -> times of the connect calls made for
                    \* it within the window (the newest ones), one at a time
    sending,        \* None or the locals of the send_to_user call in progress
    locked,         \* the last call of the registry did its writes inside
                    \* "async with self._lock"
    \* ---- ContextService, session_contexts of one user
    session_contexts,   \* db.session_contexts: set of documents
    next_id,        \* the next _id of that collection
    ctx_now,        \* session records inserted so far; the clock of created_at
    ctx_before,     \* session_contexts before the last extract_and_save_context
    ctx_call,       \* what that call did
    loaded,         \* the last call of load_user_context and what it returned
    summarizing     \* task -> where it is in maybe_summarize_old_sessions,
                    \* and its locals

gateVars == <<meetings, now, access, gateArgs>>

turnVars == <<dbPhase, hpc, user_phase, registered, extract_calls, active_goal_id,
              tool_round, round_events, tool_calls_this_round, full_response,
              tokens_used, chat_messages, goals, sent, step, stream_calls,
              exit_kind, peer_closed>>

regVars == <<active_connections, connection_info, connection_attempts,
             ip_connection_attempts, connecting, clock, reg_ret, reg_call,
             attempts_made, sending, locked>>

ctxVars == <<session_contexts, next_id, ctx_now, ctx_before, ctx_call, loaded,
             summarizing>>

vars == <<gateVars, turnVars, regVars, ctxVars>>

None == <<>>
Some(x) == <<x>>

Users == {"u1", "u2"}

\* a Python dict without keys
EmptyDict == [k \in {} |-> None]

----------------------------------------------------------------------------
\* ---- each component before it has done anything

GateIdle ==
    /\ meetings = <<>>
    /\ now = 0
    /\ access = None
    /\ gateArgs = None

\* the endpoint before any connection, with an empty transcript
TurnIdle ==
    /\ dbPhase = "goal_setting"
    /\ hpc = "start"
    /\ user_phase = None
    /\ registered = FALSE
    /\ extract_calls = 0
    /\ active_goal_id = None
    /\ tool_round = 0
    /\ round_events = 0
    /\ tool_calls_this_round = 0
    /\ full_response = <<>>
    /\ tokens_used = 0
    /\ chat_messages = <<>>
    /\ goals = [g \in {"g1"} |-> <<>>]
    /\ sent = <<>>
    /\ step = "none"
    /\ stream_calls = 0
    /\ exit_kind = "running"
    /\ peer_closed = FALSE

\* ConnectionManager.__init__, lines 27-38
RegIdle ==
    /\ active_connections = EmptyDict
    /\ connection_info = EmptyDict
    /\ connection_attempts = EmptyDict
    /\ ip_connection_attempts = EmptyDict
    /\ connecting = EmptyDict
    /\ clock = 0
    /\ reg_ret = [op |-> "none", value |-> None]
    /\ reg_call = [op |-> "none", websocket |-> 0, user_id |-> None,
                   client_ip |-> None]
    /\ attempts_made = EmptyDict
    /\ sending = None
    /\ locked = FALSE

CtxIdle ==
    /\ session_contexts = {}
    /\ next_id = 1
    /\ ctx_now = 0
    /\ ctx_before = {}
    /\ ctx_call = [context_id |-> None, triggered |-> FALSE, sum_reply |-> "none",
                   summary |-> None, summary_id |-> None, deleted |-> FALSE,
                   history_len |-> 0, asked |-> FALSE]
    /\ loaded = [called |-> FALSE, limit |-> 0, result |-> <<>>]
    /\ summarizing = EmptyDict

----------------------------------------------------------------------------
(* Access gate                                                             *)

MEETING_WINDOW_BEFORE_MINUTES == 30
MEETING_WINDOW_AFTER_MINUTES == 60
DEFAULT_MEETING_DURATION_MINUTES == 30
\* timedelta(hours=2) of the first lookup
LOOKAHEAD_MINUTES == 120

\* Bounds of the meeting stores the gate is applied to
MaxMeetings == 2
MaxK == 3
LongDuration == 60

Phases == {"goal_setting", "tracking", "onboarding"}
VALID_STATUSES == {"scheduled", "active", "completed", "cancelled"}
ScheduledAts == {k * MEETING_WINDOW_BEFORE_MINUTES : k \in (0 - MaxK)..MaxK}
Durations == {None, Some(LongDuration)}

MeetingDocs ==
    [user_id : Users, status : VALID_STATUSES,
     scheduled_at : ScheduledAts, duration_minutes : Durations]

MeetingStores == UNION {[1..n -> MeetingDocs] : n \in 0..MaxMeetings}

\* meeting.get("duration_minutes", settings.DEFAULT_MEETING_DURATION_MINUTES)
duration(meeting) ==
    IF meeting.duration_minutes = None
    THEN DEFAULT_MEETING_DURATION_MINUTES
    ELSE meeting.duration_minutes[1]

window_start(current_time) == current_time - MEETING_WINDOW_BEFORE_MINUTES

window_open(meeting) == meeting.scheduled_at - MEETING_WINDOW_BEFORE_MINUTES

window_close(meeting) ==
    meeting.scheduled_at + duration(meeting) + MEETING_WINDOW_AFTER_MINUTES

\* the documents matching the filter of the first find_one
ActiveQuery(user_id, current_time) ==
    {i \in DOMAIN meetings :
        /\ meetings[i].user_id = user_id
        /\ meetings[i].status \in {"scheduled", "active"}
        /\ meetings[i].scheduled_at >= window_start(current_time)
        /\ meetings[i].scheduled_at <= current_time + LOOKAHEAD_MINUTES}

\* the documents matching the filter of the second find_one
NextQuery(user_id, current_time) ==
    {i \in DOMAIN meetings :
        /\ meetings[i].user_id = user_id
        /\ meetings[i].status = "scheduled"
        /\ meetings[i].scheduled_at > current_time}

\* find_one with no sort: any matching document, None when there is none
FindOne(matching) ==
    IF matching = {} THEN {None} ELSE {Some(i) : i \in matching}

\* mutant: the second lookup without its sort
FindOneSorted_nosort(matching) ==
    IF matching = {} THEN {None} ELSE {Some(i) : i \in matching}

\* find_one(sort=[("scheduled_at", 1)]): a matching document of least scheduled_at
FindOneSorted(matching) ==
    IF matching = {} THEN {None}
    ELSE {Some(i) : i \in {j \in matching :
            \A k \in matching : meetings[j].scheduled_at <= meetings[k].scheduled_at}}

\* next_available: the datetime printed by isoformat(), kept as its minute count
next_available(next_meeting) ==
    IF next_meeting = None THEN None
    ELSE Some(meetings[next_meeting[1]].scheduled_at - MEETING_WINDOW_BEFORE_MINUTES)

Verdict(can, reason, phase, nextAv, mid) ==
    [can_access |-> can, reason |-> reason, user_phase |-> phase,
     next_available |-> nextAv, meeting_id |-> mid]

\* the tracking branch, for one outcome of each of the two lookups
TrackingVerdict(phase, current_time, meeting, next_meeting) ==
    IF /\ meeting # None
       /\ window_open(meetings[meeting[1]]) <= current_time
       /\ current_time <= window_close(meetings[meeting[1]])
    THEN Verdict(TRUE, "Active meeting window", phase, None, meeting)
    ELSE Verdict(FALSE,
                 "Chat is only available during scheduled meetings in tracking phase",
                 phase, next_available(next_meeting), None)

\* mutant: the meetings are looked up for every phase but an unknown one
can_access_chat_always_looks(user_id, phase) ==
    IF phase \in {"goal_setting", "tracking"}
    THEN {TrackingVerdict(phase, now, m, n) :
            m \in FindOne(ActiveQuery(user_id, now)),
            n \in FindOneSorted(NextQuery(user_id, now))}
    ELSE {Verdict(FALSE, "Invalid user phase", phase, None, None)}

\* the set of dicts can_access_chat may return in the current store at the current time
can_access_chat(user_id, phase) ==
    IF phase = "goal_setting"
    THEN {Verdict(TRUE, "Goal setting phase - unlimited coach access",
                  phase, None, None)}
    ELSE IF phase = "tracking"
    THEN {TrackingVerdict(phase, now, m, n) :
            m \in FindOne(ActiveQuery(user_id, now)),
            n \in FindOneSorted(NextQuery(user_id, now))}
    ELSE {Verdict(FALSE, "Invalid user phase", phase, None, None)}

\* GET /chat/access: one evaluation of the gate
check_chat_access(user_id, phase) ==
    /\ \E v \in can_access_chat(user_id, phase) : access' = Some(v)
    /\ gateArgs' = Some([user_id |-> user_id, user_phase |-> phase,
                         db_phase |-> phase, at |-> "rest"])
    /\ UNCHANGED <<meetings, now>>
    /\ UNCHANGED turnVars
    /\ UNCHANGED <<regVars, ctxVars>>

InitGate ==
    /\ meetings \in MeetingStores
    /\ now = 0
    /\ access = None
    /\ gateArgs = None
    /\ TurnIdle
    /\ RegIdle
    /\ CtxIdle

NextGate == \E u \in Users, ph \in Phases : check_chat_access(u, ph)

SpecGate == InitGate /\ [][NextGate]_vars

----------------------------------------------------------------------------
(* websocket_chat_endpoint: one connection of user HUser                   *)

HUser == "u1"
max_tool_rounds == 5

\* Bounds of the sessions explored
MaxEvents == 2      \* events a provider stream yields in one round

GoalSeq == <<"g1">>
GoalIds == {GoalSeq[i] : i \in DOMAIN GoalSeq}
valid_phases == {"draft", "active", "completed", "archived"}

\* texts are sequences of pieces; "" is the empty sequence
USER_TEXT == <<"hi">>
PLACEHOLDER == <<"(Goal updated)">>
ERROR_TEXT == <<"llm error">>
WELCOME_TEXT == <<"welcome">>
MARKDOWN == <<"md">>
ChunkTexts == {<<"a">>}
TokenCounts == {1}

Event(type, data) == [type |-> type, data |-> data]

\* mutant: the error event without the next available time
ErrorEvent_no_next(content, nextAv) ==
    Event("error", [content |-> content, next_available |-> None])

ErrorEvent(content, nextAv) ==
    Event("error", [content |-> content, next_available |-> nextAv])

\* MessageModel.create_message_document
create_message_document(role, content, tokens) ==
    [role |-> role, content |-> content, tokens_used |-> tokens]

\* ---- GoalToolHandler

Ok(goal_id) == [success |-> TRUE, goal_id |-> Some(goal_id), error |-> None]
Fail(error) == [success |-> FALSE, goal_id |-> None, error |-> Some(error)]

\* ObjectId.is_valid
is_valid(goal_id) == goal_id \in GoalIds

\* the _id insert_one gives a new goal
FreshIds(G) == {g \in GoalIds : G[g] = None}
NewId(G) ==
    GoalSeq[CHOOSE i \in DOMAIN GoalSeq :
        /\ G[GoalSeq[i]] = None
        /\ \A j \in 1..(i - 1) : G[GoalSeq[j]] # None]

ToolInputs ==
    [goal_id : {None, Some("current"), Some("g1"), Some("zz")},
     phase : {"active", "bogus"},
     content : {None, Some(MARKDOWN)}]

\* the tool_call events a provider may emit
ToolCalls ==
    {[tool_name |-> "create_goal", tool_input |-> i] :
        i \in {j \in ToolInputs : j.goal_id = None /\ j.phase = "active"}}
    \cup
    {[tool_name |-> "update_goal", tool_input |-> i] :
        i \in {j \in ToolInputs : j.phase = "active" /\ j.content # None}}
    \cup
    {[tool_name |-> "set_goal_phase", tool_input |-> i] :
        i \in {j \in ToolInputs : j.content = None}}
    \cup
    {[tool_name |-> "delete_goal", tool_input |-> i] :
        i \in {j \in ToolInputs :
                 j.goal_id = Some("g1") /\ j.phase = "active" /\ j.content = None}}

\* where a data-store failure strikes a tool: not at all, in the insert of
\* _create_goal_minimal, or in the update path before or after its write
Faults == {"none", "minimal", "before", "after"}

\* _create_goal_minimal: its own try/except turns a failure into a result
create_goal_minimal(tool_input, G, fails) ==
    IF fails
    THEN [result |-> Fail("exception"), goals |-> G]
    ELSE [result |-> Ok(NewId(G)),
          goals |-> [G EXCEPT ![NewId(G)] =
                        Some([phase |-> "draft", content |-> <<>>])]]

\* mutant: with no active goal, "current" falls back to the first goal
update_goal_first_goal(tool_input, agid, G) ==
    LET raw == IF tool_input.goal_id = None THEN "" ELSE tool_input.goal_id[1]
        goal_id == IF raw # "current" THEN raw
                   ELSE IF agid = None THEN GoalSeq[1] ELSE agid[1]
    IN
    IF ~is_valid(goal_id)
    THEN [result |-> Fail("Invalid goal ID"), goals |-> G]
    ELSE IF G[goal_id] = None
    THEN [result |-> Ok(goal_id), goals |-> G]
    ELSE [result |-> Ok(goal_id),
          goals |-> [G EXCEPT ![goal_id] =
               Some([G[goal_id][1] EXCEPT !.content =
                   IF tool_input.content # None
                   THEN tool_input.content[1] ELSE @])]]

\* _update_goal when the data store does not fail
update_goal(tool_input, agid, G) ==
    LET raw == IF tool_input.goal_id = None THEN "" ELSE tool_input.goal_id[1] IN
    IF raw = "current" /\ agid = None
    THEN [result |-> Fail("No active goal in editor to update"), goals |-> G]
    ELSE LET goal_id == IF raw = "current" THEN agid[1] ELSE raw IN
         IF ~is_valid(goal_id)
         THEN [result |-> Fail("Invalid goal ID"), goals |-> G]
         ELSE IF G[goal_id] = None
         THEN [result |-> Fail("Goal not found"), goals |-> G]
         ELSE [result |-> Ok(goal_id),
               goals |-> [G EXCEPT ![goal_id] =
                    Some([G[goal_id][1] EXCEPT !.content =
                        IF tool_input.content # None
                        THEN tool_input.content[1] ELSE @])]]

\* _set_goal_phase when the data store does not fail
set_goal_phase(tool_input, agid, G) ==
    LET raw == IF tool_input.goal_id = None THEN "" ELSE tool_input.goal_id[1] IN
    IF tool_input.phase \notin valid_phases
    THEN [result |-> Fail("Invalid phase"), goals |-> G]
    ELSE IF raw = "current" /\ agid = None
    THEN [result |-> Fail("No active goal in editor to update"), goals |-> G]
    ELSE LET goal_id == IF raw = "current" THEN agid[1] ELSE raw IN
         IF ~is_valid(goal_id)
         THEN [result |-> Fail("Invalid goal ID"), goals |-> G]
         ELSE IF G[goal_id] = None
         THEN [result |-> Fail("Goal not found"), goals |-> G]
         ELSE [result |-> Ok(goal_id),
               goals |-> [G EXCEPT ![goal_id] =
                    Some([G[goal_id][1] EXCEPT !.phase = tool_input.phase])]]

\* the tool body execute_tool dispatches to (create_goal is never sent here
\* by the endpoint)
dispatch(tool_name, tool_input, agid, G) ==
    IF tool_name = "update_goal" THEN update_goal(tool_input, agid, G)
    ELSE IF tool_name = "set_goal_phase" THEN set_goal_phase(tool_input, agid, G)
    ELSE [result |-> Fail("Unknown tool"), goals |-> G]

\* execute_tool: an exception of the tool body becomes a failed result; the
\* write may or may not have been applied when it was raised
execute_tool(tool_name, tool_input, agid, G, fault) ==
    LET done == dispatch(tool_name, tool_input, agid, G) IN
    IF fault = "none" \/ ~done.result.success THEN done
    ELSE [result |-> Fail("exception"),
          goals |-> IF fault = "after" THEN done.goals ELSE G]

\* ---- the endpoint

loopVars == <<tool_round, round_events, tool_calls_this_round, full_response,
              tokens_used, stream_calls>>

\* mutant: the socket stays in the registry
Finally_keeps_socket ==
    /\ extract_calls' = extract_calls + 1
    /\ registered' = registered
    /\ hpc' = "closed"

\* finally block (lines 772-789) once user is set: context extraction is
\* attempted, its failure is swallowed, then the registry forgets the socket
Finally ==
    /\ extract_calls' = extract_calls + 1
    /\ registered' = FALSE
    /\ hpc' = "closed"

\* lines 423-497: authentication, gate, registry admission, welcome
Admission(token_ok, connected, welcome) ==
    /\ hpc = "start"
    /\ UNCHANGED peer_closed
    /\ step' = "admission"
    /\ UNCHANGED <<meetings, now, dbPhase, active_goal_id, goals, exit_kind>>
    /\ UNCHANGED loopVars
    /\ IF ~token_ok
       THEN /\ hpc' = "closed"
            /\ sent' = <<>>
            /\ UNCHANGED <<access, gateArgs, user_phase, registered,
                           extract_calls, chat_messages>>
       ELSE \E v \in can_access_chat(HUser, dbPhase) :
            /\ user_phase' = Some(dbPhase)
            /\ access' = Some(v)
            /\ gateArgs' = Some([user_id |-> HUser, user_phase |-> dbPhase,
                                 db_phase |-> dbPhase, at |-> "admission"])
            /\ IF ~v.can_access
               THEN \* session_id is not yet bound when the finally block
                    \* reads it (line 779): the NameError is swallowed with
                    \* the extraction not called
                    /\ sent' = <<ErrorEvent(v.reason, v.next_available)>>
                    /\ hpc' = "closed"
                    /\ UNCHANGED <<registered, extract_calls, chat_messages>>
               ELSE IF ~connected
               THEN /\ sent' = <<>>
                    /\ Finally
                    /\ UNCHANGED chat_messages
               ELSE /\ registered' = TRUE
                    /\ hpc' = "recv"
                    /\ UNCHANGED extract_calls
                    /\ IF welcome
                       THEN /\ chat_messages' = Append(chat_messages,
                                create_message_document("assistant", WELCOME_TEXT, None))
                            /\ sent' = <<Event("connected", [meeting_id |-> v.meeting_id]),
                                         Event("welcome", [message_id |-> Len(chat_messages) + 1])>>
                       ELSE /\ UNCHANGED chat_messages
                            /\ sent' = <<Event("connected", [meeting_id |-> v.meeting_id])>>
    /\ UNCHANGED <<regVars, ctxVars>>

recvFrame == <<gateVars, dbPhase, hpc, user_phase, registered, extract_calls,
               active_goal_id, chat_messages, goals, exit_kind, peer_closed>>

\* lines 509-512
ReceivePing ==
    /\ hpc = "recv"
    /\ ~peer_closed
    /\ step' = "ping"
    /\ sent' = <<Event("pong", [content |-> None])>>
    /\ UNCHANGED recvFrame
    /\ UNCHANGED loopVars
    /\ UNCHANGED <<regVars, ctxVars>>

\* lines 514-519: a typing payload, or a message payload with no content
ReceiveIgnored ==
    /\ hpc = "recv"
    /\ ~peer_closed
    /\ step' = "ignored"
    /\ sent' = <<>>
    /\ UNCHANGED recvFrame
    /\ UNCHANGED loopVars
    /\ UNCHANGED <<regVars, ctxVars>>

\* lines 755-759: the payload is not JSON
ReceiveMalformed ==
    /\ hpc = "recv"
    /\ ~peer_closed
    /\ step' = "malformed"
    /\ sent' = <<ErrorEvent("Invalid message format. Expected JSON.", None)>>
    /\ UNCHANGED recvFrame
    /\ UNCHANGED loopVars
    /\ UNCHANGED <<regVars, ctxVars>>

\* lines 752-754 and the finally block: the socket closes while the endpoint
\* awaits a payload, or while it sends during a turn
SocketClosed ==
    /\ hpc \in {"recv", "stream"}
    /\ UNCHANGED peer_closed
    /\ ~peer_closed
    /\ step' = "closed"
    /\ sent' = <<>>
    /\ exit_kind' = IF hpc = "stream" THEN "disconnected" ELSE exit_kind
    /\ Finally
    /\ UNCHANGED <<gateVars, dbPhase, user_phase, active_goal_id, chat_messages,
                   goals>>
    /\ UNCHANGED loopVars
    /\ UNCHANGED <<regVars, ctxVars>>

\* the client closes the socket; the endpoint is awaiting a payload or is in
\* the middle of a turn
PeerCloses ==
    /\ hpc \in {"recv", "stream"}
    /\ ~peer_closed
    /\ peer_closed' = TRUE
    /\ UNCHANGED <<gateVars, dbPhase, hpc, user_phase, registered, extract_calls,
                   active_goal_id, chat_messages, goals, sent, step, exit_kind>>
    /\ UNCHANGED loopVars
    /\ UNCHANGED <<regVars, ctxVars>>

\* lines 752-754, 768-789: the pending receive or the next send of the
\* endpoint raises; the finally block attempts the extraction, swallows its
\* failure (lines 785-787) and calls disconnect
NoticeClosed(extract_ok) ==
    /\ hpc \in {"recv", "stream"}
    /\ peer_closed
    /\ step' = IF extract_ok THEN "closed" ELSE "closed_extraction_failed"
    /\ sent' = <<>>
    /\ exit_kind' = IF hpc = "stream" THEN "disconnected" ELSE exit_kind
    /\ Finally
    /\ UNCHANGED <<gateVars, dbPhase, user_phase, active_goal_id, chat_messages,
                   goals, peer_closed>>
    /\ UNCHANGED loopVars
    /\ UNCHANGED <<regVars, ctxVars>>

\* lines 519-582: a message payload starts a turn
ReceiveMessage(agid, provider_ok) ==
    /\ hpc = "recv"
    /\ UNCHANGED peer_closed
    /\ ~peer_closed
    /\ step' = "message"
    /\ UNCHANGED <<meetings, now, dbPhase, user_phase, registered, extract_calls,
                   goals>>
    /\ \E v \in can_access_chat(HUser, user_phase[1]) :
        /\ access' = Some(v)
        /\ gateArgs' = Some([user_id |-> HUser, user_phase |-> user_phase[1],
                             db_phase |-> dbPhase, at |-> "turn"])
        /\ IF ~v.can_access
           THEN /\ sent' = <<ErrorEvent(v.reason, v.next_available)>>
                /\ exit_kind' = "denied"
                /\ chat_messages' = <<>>
                /\ active_goal_id' = None
                /\ UNCHANGED hpc
                /\ tool_round' = 0
                /\ stream_calls' = 0
                /\ round_events' = 0
                /\ tool_calls_this_round' = 0
                /\ full_response' = <<>>
                /\ tokens_used' = 0
           ELSE /\ active_goal_id' = agid
                /\ chat_messages' =
                        <<create_message_document("user", USER_TEXT, None)>>
                /\ round_events' = 0
                /\ tool_calls_this_round' = 0
                /\ full_response' = <<>>
                /\ tokens_used' = 0
                /\ IF ~provider_ok
                   THEN /\ sent' = <<Event("typing", [content |-> None]),
                                     ErrorEvent("provider not configured", None)>>
                        /\ exit_kind' = "noprovider"
                        /\ tool_round' = 0
                        /\ stream_calls' = 0
                        /\ UNCHANGED hpc
                   ELSE /\ sent' = <<Event("typing", [content |-> None])>>
                        /\ exit_kind' = "running"
                        /\ hpc' = "stream"
                        /\ tool_round' = 1
                        /\ stream_calls' = 1
    /\ UNCHANGED <<regVars, ctxVars>>

\* mutant: the loop test off by one
loop_continues_inclusive(round) == round <= max_tool_rounds

\* line 584: while tool_round < max_tool_rounds
loop_continues(round) == round < max_tool_rounds

\* mutant: a message is saved only when text was produced
should_save_text_only(response, round) == response # <<>>

\* line 731: if full_response or tool_round > 1
should_save(response, round) == response # <<>> \/ round > 1

\* lines 735, 746: full_response if full_response else "(Goal updated)"
assistant_content(response) == IF response # <<>> THEN response ELSE PLACEHOLDER

\* lines 730-742 applied to the documents msgs: the documents afterwards
save_assistant(msgs, response, round, tokens) ==
    IF should_save(response, round)
    THEN Append(msgs, create_message_document("assistant",
                        assistant_content(response), Some(tokens)))
    ELSE msgs

\* lines 743-750: the completion signal, when a message was saved
response_events(msgs, response, round, tokens) ==
    IF should_save(response, round)
    THEN <<Event("response", [content |-> assistant_content(response),
                              message_id |-> Len(msgs) + 1,
                              tokens_used |-> tokens])>>
    ELSE <<>>

streamFrame == <<gateVars, dbPhase, user_phase, registered, extract_calls,
                 active_goal_id, peer_closed>>

\* lines 598-605: a chunk event
StreamChunk(text) ==
    /\ hpc = "stream"
    /\ ~peer_closed
    /\ round_events < MaxEvents
    /\ step' = "chunk"
    /\ round_events' = round_events + 1
    /\ full_response' = full_response \o text
    /\ sent' = <<Event("response_chunk", [content |-> text])>>
    /\ UNCHANGED <<hpc, tool_round, tool_calls_this_round, tokens_used,
                   chat_messages, goals, stream_calls, exit_kind>>
    /\ UNCHANGED streamFrame
    /\ UNCHANGED <<regVars, ctxVars>>

\* lines 692-694: a complete event
StreamComplete(tokens) ==
    /\ hpc = "stream"
    /\ ~peer_closed
    /\ round_events < MaxEvents
    /\ step' = "complete"
    /\ round_events' = round_events + 1
    /\ tokens_used' = tokens_used + tokens
    /\ sent' = <<>>
    /\ UNCHANGED <<hpc, tool_round, tool_calls_this_round, full_response,
                   chat_messages, goals, stream_calls, exit_kind>>
    /\ UNCHANGED streamFrame
    /\ UNCHANGED <<regVars, ctxVars>>

\* mutant: the result of a tool is kept for the next round and never sent
Executed_silent(tool_name, tool_result, G, before) ==
    /\ goals' = G
    /\ sent' = before
    /\ tool_calls_this_round' = tool_calls_this_round + 1
    /\ UNCHANGED <<hpc, exit_kind>>

\* mutant: the result of a tool is sent before the focus event
Executed_result_first(tool_name, tool_result, G, before) ==
    /\ goals' = G
    /\ sent' = <<Event("tool_call",
                [tool |-> tool_name, tool_result |-> tool_result])>> \o before
    /\ tool_calls_this_round' = tool_calls_this_round + 1
    /\ UNCHANGED <<hpc, exit_kind>>

\* lines 666-690: the result of a tool is sent and kept for the next round
Executed(tool_name, tool_result, G, before) ==
    /\ goals' = G
    /\ sent' = before \o <<Event("tool_call",
                [tool |-> tool_name, tool_result |-> tool_result])>>
    /\ tool_calls_this_round' = tool_calls_this_round + 1
    /\ UNCHANGED <<hpc, exit_kind>>

\* lines 760-766: an exception that escapes the turn is answered by an error
\* event and the endpoint awaits the next payload
Escaped(G, before) ==
    /\ goals' = G
    /\ sent' = before \o
               <<ErrorEvent("An error occurred processing your message.", None)>>
    /\ hpc' = "recv"
    /\ exit_kind' = "raised"
    /\ UNCHANGED tool_calls_this_round

\* lines 646-653
populate_input(tool_input, goal_id) ==
    [goal_id |-> Some(goal_id), phase |-> tool_input.phase,
     content |-> tool_input.content]

\* lines 607-690: a tool_call event
StreamToolCall(call, fault) ==
    /\ hpc = "stream"
    /\ ~peer_closed
    /\ round_events < MaxEvents
    /\ call.tool_name = "create_goal" => FreshIds(goals) # {}
    /\ call.tool_name # "create_goal" => fault # "minimal"
    /\ step' = "tool_call"
    /\ round_events' = round_events + 1
    /\ UNCHANGED <<tool_round, full_response, tokens_used, chat_messages,
                   stream_calls>>
    /\ UNCHANGED streamFrame
    /\ LET tool_name == call.tool_name
           tool_input == call.tool_input
           goal_id_to_focus ==
               IF tool_input.goal_id = Some("current") THEN active_goal_id
               ELSE tool_input.goal_id
           before ==
               IF tool_name \in {"update_goal", "set_goal_phase"}
                  /\ goal_id_to_focus # None
               THEN <<Event("focus_goal", [goal_id |-> goal_id_to_focus[1]])>>
               ELSE <<>>
       IN
       IF tool_name = "create_goal"
       THEN LET minimal == create_goal_minimal(tool_input, goals, fault = "minimal") IN
            IF minimal.result.success
            THEN LET goal_id == minimal.result.goal_id[1]
                     focus == <<Event("focus_goal", [goal_id |-> goal_id])>>
                     populated == update_goal(populate_input(tool_input, goal_id),
                                              Some(goal_id), minimal.goals)
                 IN IF fault = "none"
                    THEN Executed(tool_name,
                                  [populated.result EXCEPT !.goal_id = Some(goal_id)],
                                  populated.goals, before \o focus)
                    ELSE Escaped(IF fault = "after" THEN populated.goals
                                 ELSE minimal.goals, before \o focus)
            ELSE Executed(tool_name, minimal.result, goals, before)
       ELSE LET done == execute_tool(tool_name, tool_input, active_goal_id,
                                     goals, fault)
            IN Executed(tool_name, done.result, done.goals, before)
    /\ UNCHANGED <<regVars, ctxVars>>

\* lines 696-750: an error event; the loop is left and the code after the
\* loop runs with tool_round = max_tool_rounds
StreamError ==
    /\ hpc = "stream"
    /\ ~peer_closed
    /\ round_events < MaxEvents
    /\ step' = "error"
    /\ round_events' = round_events + 1
    /\ tool_round' = max_tool_rounds
    /\ LET with_error == Append(chat_messages,
                create_message_document("assistant", ERROR_TEXT, None))
       IN /\ chat_messages' = save_assistant(with_error, full_response,
                                             max_tool_rounds, tokens_used)
          /\ sent' = <<ErrorEvent(ERROR_TEXT, None)>> \o
                     response_events(with_error, full_response,
                                     max_tool_rounds, tokens_used)
    /\ hpc' = "recv"
    /\ exit_kind' = "error"
    /\ UNCHANGED <<tool_calls_this_round, full_response, tokens_used, goals,
                   stream_calls>>
    /\ UNCHANGED streamFrame
    /\ UNCHANGED <<regVars, ctxVars>>

\* lines 715-750: the stream of the round is exhausted
StreamEnd ==
    /\ hpc = "stream"
    /\ ~peer_closed
    /\ step' = "end"
    /\ UNCHANGED <<full_response, tokens_used, goals>>
    /\ UNCHANGED streamFrame
    /\ IF tool_calls_this_round # 0 /\ loop_continues(tool_round)
       THEN /\ tool_round' = tool_round + 1
            /\ stream_calls' = stream_calls + 1
            /\ round_events' = 0
            /\ tool_calls_this_round' = 0
            /\ sent' = <<>>
            /\ UNCHANGED <<hpc, chat_messages, exit_kind>>
       ELSE /\ chat_messages' = save_assistant(chat_messages, full_response,
                                               tool_round, tokens_used)
            /\ sent' = response_events(chat_messages, full_response,
                                       tool_round, tokens_used)
            /\ hpc' = "recv"
            /\ exit_kind' = IF tool_calls_this_round = 0 THEN "complete" ELSE "cap"
            /\ UNCHANGED <<tool_round, round_events, tool_calls_this_round,
                           stream_calls>>
    /\ UNCHANGED <<regVars, ctxVars>>

\* PATCH /users/me/phase: the stored phase of the user changes.  The endpoint
\* reads the stored phase and the meetings only in Admission and
\* ReceiveMessage, so a change made during a turn is one made right after it.
transition_user_phase(phase) ==
    /\ hpc \in {"start", "recv"}
    /\ UNCHANGED peer_closed
    /\ phase # dbPhase
    /\ dbPhase' = phase
    /\ UNCHANGED <<gateVars, hpc, user_phase, registered, extract_calls,
                   active_goal_id, chat_messages, goals, sent, step, exit_kind>>
    /\ UNCHANGED loopVars
    /\ UNCHANGED <<regVars, ctxVars>>

\* the meeting stores a session is run against
OpenNow == [user_id |-> HUser, status |-> "active", scheduled_at |-> 0,
            duration_minutes |-> None]
Later == [user_id |-> HUser, status |-> "scheduled",
          scheduled_at |-> MEETING_WINDOW_BEFORE_MINUTES + MEETING_WINDOW_AFTER_MINUTES,
          duration_minutes |-> None]
TurnStores == {<<>>, <<OpenNow>>, <<Later>>}

\* meetings routes: the user's meetings are created or cancelled
change_meetings(store) ==
    /\ hpc \in {"start", "recv"}
    /\ store # meetings
    /\ meetings' = store
    /\ UNCHANGED <<now, access, gateArgs>>
    /\ UNCHANGED turnVars
    /\ UNCHANGED <<regVars, ctxVars>>

InitTurn ==
    /\ meetings \in TurnStores
    /\ now = 0
    /\ access = None
    /\ gateArgs = None
    /\ TurnIdle
    /\ RegIdle
    /\ CtxIdle

NextTurn ==
    \/ \E token_ok, connected, welcome \in BOOLEAN :
            Admission(token_ok, connected, welcome)
    \/ ReceivePing
    \/ ReceiveIgnored
    \/ ReceiveMalformed
    \/ SocketClosed
    \/ \E agid \in {None, Some("g1")}, provider_ok \in BOOLEAN :
            ReceiveMessage(agid, provider_ok)
    \/ \E text \in ChunkTexts : StreamChunk(text)
    \/ \E tokens \in TokenCounts : StreamComplete(tokens)
    \/ \E call \in ToolCalls, fault \in Faults : StreamToolCall(call, fault)
    \/ StreamError
    \/ StreamEnd
    \/ \E phase \in {"goal_setting", "tracking"} : transition_user_phase(phase)
    \/ \E store \in TurnStores : change_meetings(store)

SpecTurn == InitTurn /\ [][NextTurn]_vars

\* the same endpoint with the close of the socket and its discovery apart,
\* for a user in goal_setting whose phase and meetings do not change.
\* The task of the connection is scheduled: the receive or send that is
\* pending when the socket closes does raise.
InitClose ==
    /\ GateIdle
    /\ TurnIdle
    /\ RegIdle
    /\ CtxIdle

NextClose ==
    \/ \E token_ok, connected, welcome \in BOOLEAN :
            Admission(token_ok, connected, welcome)
    \/ ReceivePing
    \/ ReceiveIgnored
    \/ ReceiveMalformed
    \/ SocketClosed
    \/ \E agid \in {None, Some("g1")}, provider_ok \in BOOLEAN :
            ReceiveMessage(agid, provider_ok)
    \/ \E text \in ChunkTexts : StreamChunk(text)
    \/ \E tokens \in TokenCounts : StreamComplete(tokens)
    \/ \E call \in ToolCalls, fault \in Faults : StreamToolCall(call, fault)
    \/ StreamError
    \/ StreamEnd
    \/ PeerCloses
    \/ \E extract_ok \in BOOLEAN : NoticeClosed(extract_ok)

SpecClose == InitClose /\ [][NextClose]_vars
                /\ WF_vars(\E extract_ok \in BOOLEAN : NoticeClosed(extract_ok))

\* one session of a user in the goal-setting phase: the steps of the endpoint
\* alone
InitSession ==
    /\ GateIdle
    /\ TurnIdle
    /\ RegIdle
    /\ CtxIdle

NextSession ==
    \/ \E token_ok, connected, welcome \in BOOLEAN :
            Admission(token_ok, connected, welcome)
    \/ ReceivePing
    \/ ReceiveIgnored
    \/ ReceiveMalformed
    \/ SocketClosed
    \/ \E agid \in {None, Some("g1")}, provider_ok \in BOOLEAN :
            ReceiveMessage(agid, provider_ok)
    \/ \E text \in ChunkTexts : StreamChunk(text)
    \/ \E tokens \in TokenCounts : StreamComplete(tokens)
    \/ \E call \in ToolCalls, fault \in Faults : StreamToolCall(call, fault)
    \/ StreamError
    \/ StreamEnd

SpecSession == InitSession /\ [][NextSession]_vars

----------------------------------------------------------------------------
\* ---- the connection registry (core/websocket_manager.py)

MAX_CONNECTIONS_PER_USER == 5
MAX_CONNECTION_ATTEMPTS_PER_MINUTE == 10
CONNECTION_ATTEMPT_WINDOW_SECONDS == 60

\* sockets beyond the per-user cap, and the clock of the registry in seconds
ExtraSockets == 1
MaxTicks == 2
TickSeconds == CONNECTION_ATTEMPT_WINDOW_SECONDS \div 2

\* WebSocket objects.  They are interchangeable, so a new connection takes
\* the lowest index that is neither registered nor being connected.
Sockets == 1..(MAX_CONNECTIONS_PER_USER + ExtraSockets)
RegUsers == {"u1"}
\* the endpoint passes no client_ip (chat.py lines 447-452)
ClientIps == {None}

\* Python dicts: a function whose DOMAIN is the set of keys present
Get(d, k, default) == IF k \in DOMAIN d THEN d[k] ELSE default
Put(d, k, v) == [x \in DOMAIN d \cup {k} |-> IF x = k THEN v ELSE d[x]]
Pop(d, k) == [x \in DOMAIN d \ {k} |-> d[x]]

\* lines 40-43
clean_old_attempts(attempts) ==
    LET cutoff == clock - CONNECTION_ATTEMPT_WINDOW_SECONDS
    IN  SelectSeq(attempts, LAMBDA ts : ts > cutoff)

\* mutant: a call is let through while the log holds 10 attempts
check_rate_limit_inclusive(identifier, attempts_dict) ==
    LET cleaned == clean_old_attempts(Get(attempts_dict, identifier, <<>>))
    IN  [dict |-> Put(attempts_dict, identifier, cleaned),
         ok |-> Len(cleaned) <= MAX_CONNECTION_ATTEMPTS_PER_MINUTE]

\* lines 45-59: the entry is created and pruned whatever the answer is;
\* returns the dict after that and the answer
check_rate_limit(identifier, attempts_dict) ==
    LET cleaned == clean_old_attempts(Get(attempts_dict, identifier, <<>>))
    IN  [dict |-> Put(attempts_dict, identifier, cleaned),
         ok |-> Len(cleaned) < MAX_CONNECTION_ATTEMPTS_PER_MINUTE]

\* lines 61-65
record_attempt(identifier, attempts_dict) ==
    Put(attempts_dict, identifier,
        Append(Get(attempts_dict, identifier, <<>>), clock))

\* lines 257-261
get_user_connection_count(user_id) ==
    IF user_id \notin DOMAIN active_connections
    THEN 0
    ELSE Cardinality(active_connections[user_id])

FreeSockets ==
    {ws \in Sockets : ws \notin DOMAIN connection_info /\ ws \notin DOMAIN connecting}

\* connect, lines 90-110: the first section under the lock.  A refusal
\* returns False; otherwise the task goes on to await websocket.accept()
\* with the lock released.
ConnectBegin(websocket, user_id, client_ip) ==
    /\ websocket \in FreeSockets
    /\ \A ws \in FreeSockets : websocket <= ws
    /\ LET byUser == check_rate_limit(user_id, connection_attempts)
           byIp == IF client_ip # None
                   THEN check_rate_limit(client_ip[1], ip_connection_attempts)
                   ELSE [dict |-> ip_connection_attempts, ok |-> TRUE]
       IN  IF ~byUser.ok
           THEN /\ connection_attempts' = byUser.dict
                /\ reg_ret' = [op |-> "connect", value |-> Some(FALSE)]
                /\ UNCHANGED <<ip_connection_attempts, connecting>>
           ELSE IF ~byIp.ok
           THEN /\ connection_attempts' = byUser.dict
                /\ ip_connection_attempts' = byIp.dict
                /\ reg_ret' = [op |-> "connect", value |-> Some(FALSE)]
                /\ UNCHANGED connecting
           ELSE IF get_user_connection_count(user_id) >= MAX_CONNECTIONS_PER_USER
           THEN /\ connection_attempts' = byUser.dict
                /\ ip_connection_attempts' = byIp.dict
                /\ reg_ret' = [op |-> "connect", value |-> Some(FALSE)]
                /\ UNCHANGED connecting
           ELSE /\ connection_attempts' = record_attempt(user_id, byUser.dict)
                /\ ip_connection_attempts' =
                        IF client_ip # None
                        THEN record_attempt(client_ip[1], byIp.dict)
                        ELSE byIp.dict
                /\ connecting' = Put(connecting, websocket,
                        [user_id |-> user_id, client_ip |-> client_ip])
                /\ UNCHANGED reg_ret
    /\ UNCHANGED <<active_connections, connection_info, clock>>
    /\ UNCHANGED <<gateVars, turnVars, ctxVars>>
    /\ UNCHANGED <<reg_call, attempts_made, sending>>
    /\ locked' = TRUE

\* connect, lines 112-135: websocket.accept() returns or raises; when it
\* returns, the second section under the lock registers the socket
ConnectFinish(websocket, accepted) ==
    /\ websocket \in DOMAIN connecting
    /\ LET user_id == connecting[websocket].user_id
           client_ip == connecting[websocket].client_ip
       IN  IF accepted
           THEN /\ active_connections' =
                        Put(active_connections, user_id,
                            Get(active_connections, user_id, {}) \cup {websocket})
                /\ connection_info' =
                        Put(connection_info, websocket,
                            [user_id |-> user_id,
                             user_phase |-> "goal_setting",
                             client_ip |-> client_ip,
                             message_count |-> 0])
                /\ reg_ret' = [op |-> "connect", value |-> Some(TRUE)]
           ELSE /\ reg_ret' = [op |-> "connect", value |-> Some(FALSE)]
                /\ UNCHANGED <<active_connections, connection_info>>
    /\ connecting' = Pop(connecting, websocket)
    /\ UNCHANGED <<connection_attempts, ip_connection_attempts, clock>>
    /\ UNCHANGED <<gateVars, turnVars, ctxVars>>
    /\ UNCHANGED <<reg_call, attempts_made, sending>>
    /\ locked' = TRUE

\* disconnect, lines 137-164, one section under the lock
Disconnect(websocket) ==
    /\ websocket \notin DOMAIN connecting
    /\ IF websocket \notin DOMAIN connection_info
       THEN /\ reg_ret' = [op |-> "disconnect", value |-> None]
            /\ UNCHANGED <<active_connections, connection_info>>
       ELSE LET user_id == connection_info[websocket].user_id
                rest == Get(active_connections, user_id, {}) \ {websocket}
            IN  /\ connection_info' = Pop(connection_info, websocket)
                /\ active_connections' =
                        IF user_id \notin DOMAIN active_connections
                        THEN active_connections
                        ELSE IF rest = {}
                        THEN Pop(active_connections, user_id)
                        ELSE Put(active_connections, user_id, rest)
                /\ reg_ret' = [op |-> "disconnect", value |-> Some(user_id)]
    /\ UNCHANGED <<connection_attempts, ip_connection_attempts, connecting, clock>>
    /\ UNCHANGED <<gateVars, turnVars, ctxVars>>
    /\ UNCHANGED <<reg_call, attempts_made, sending>>
    /\ locked' = TRUE

\* datetime.utcnow() advances
Tick ==
    /\ clock + TickSeconds <= MaxTicks * TickSeconds
    /\ clock' = clock + TickSeconds
    /\ UNCHANGED <<active_connections, connection_info, connection_attempts,
                   ip_connection_attempts, connecting, reg_ret>>
    /\ UNCHANGED <<gateVars, turnVars, ctxVars>>
    /\ UNCHANGED <<reg_call, attempts_made, sending, locked>>

InitReg ==
    /\ RegIdle
    /\ GateIdle
    /\ TurnIdle
    /\ CtxIdle

NextReg ==
    \/ \E ws \in Sockets, u \in RegUsers, ip \in ClientIps : ConnectBegin(ws, u, ip)
    \/ \E ws \in Sockets, accepted \in BOOLEAN : ConnectFinish(ws, accepted)
    \/ \E ws \in Sockets : Disconnect(ws)
    \/ Tick

SpecReg == InitReg /\ [][NextReg]_vars

----------------------------------------------------------------------------
\* ---- the registry driven by one call at a time

SeqUsers == {"u1"}
\* one socket more than a user may have registered
SeqSockets == 1..(MAX_CONNECTIONS_PER_USER + 1)
\* the endpoint passes no client_ip (chat.py lines 447-452)
SeqClientIps == {None}

LastN(s, n) == IF Len(s) <= n THEN s ELSE SubSeq(s, Len(s) - n + 1, Len(s))

\* connect calls made for an identifier within the window, this one included
note_attempt(made, identifier) ==
    Put(made, identifier,
        LastN(Append(clean_old_attempts(Get(made, identifier, <<>>)), clock),
              MAX_CONNECTION_ATTEMPTS_PER_MINUTE))

made_before(identifier) ==
    Len(clean_old_attempts(Get(attempts_made, identifier, <<>>)))

\* mutant: the metadata is dropped and the socket stays in its user's set
without_metadata_only(active, info, websocket) ==
    [active |-> active,
     info |-> Pop(info, websocket),
     user_id |-> IF websocket \in DOMAIN info
                 THEN Some(info[websocket].user_id) ELSE None]

\* mutant: the owner is not returned
without_no_owner(active, info, websocket) ==
    IF websocket \notin DOMAIN info
    THEN [active |-> active, info |-> info, user_id |-> None]
    ELSE LET user_id == info[websocket].user_id
             rest == Get(active, user_id, {}) \ {websocket}
         IN  [active |-> IF rest = {} THEN Pop(active, user_id)
                         ELSE Put(active, user_id, rest),
              info |-> Pop(info, websocket),
              user_id |-> None]

\* lines 150-161 applied to the connection sets and the metadata
without(active, info, websocket) ==
    IF websocket \notin DOMAIN info
    THEN [active |-> active, info |-> info, user_id |-> None]
    ELSE LET user_id == info[websocket].user_id
             rest == Get(active, user_id, {}) \ {websocket}
         IN  [active |-> IF user_id \notin DOMAIN active THEN active
                         ELSE IF rest = {} THEN Pop(active, user_id)
                         ELSE Put(active, user_id, rest),
              info |-> Pop(info, websocket),
              user_id |-> Some(user_id)]

\* connect, lines 67-135, run from its first line to its return with no other
\* call of the registry in between.  accept() of a socket that has already
\* been accepted raises.
connect(websocket, user_id, client_ip, accepted) ==
    /\ connecting = EmptyDict
    /\ \/ websocket \in DOMAIN connection_info /\ ~accepted
       \/ websocket \in FreeSockets /\ \A ws \in FreeSockets : websocket <= ws
    /\ LET byUser == check_rate_limit(user_id, connection_attempts)
           byIp == IF client_ip # None
                   THEN check_rate_limit(client_ip[1], ip_connection_attempts)
                   ELSE [dict |-> ip_connection_attempts, ok |-> TRUE]
           admitted ==
               /\ byUser.ok
               /\ byIp.ok
               /\ get_user_connection_count(user_id) < MAX_CONNECTIONS_PER_USER
           attempts == IF admitted THEN record_attempt(user_id, byUser.dict)
                       ELSE byUser.dict
           ip_attempts ==
               IF ~byUser.ok THEN ip_connection_attempts
               ELSE IF admitted /\ client_ip # None
               THEN record_attempt(client_ip[1], byIp.dict)
               ELSE byIp.dict
           ok == admitted /\ accepted
           active == IF ok
                     THEN Put(active_connections, user_id,
                              Get(active_connections, user_id, {}) \cup {websocket})
                     ELSE active_connections
           info == IF ok
                   THEN Put(connection_info, websocket,
                            [user_id |-> user_id,
                             user_phase |-> "goal_setting",
                             client_ip |-> client_ip,
                             message_count |-> 0])
                   ELSE connection_info
       IN  /\ active_connections' = active
           /\ connection_info' = info
           /\ connection_attempts' = attempts
           /\ ip_connection_attempts' = ip_attempts
           /\ reg_ret' = [op |-> "connect", value |-> Some(ok)]
           /\ reg_call' = [op |-> "connect", websocket |-> websocket,
                           user_id |-> Some(user_id), client_ip |-> client_ip]
           /\ attempts_made' =
                IF client_ip = None
                THEN note_attempt(attempts_made, user_id)
                ELSE note_attempt(note_attempt(attempts_made, user_id), client_ip[1])
    /\ UNCHANGED <<connecting, clock, sending>>
    /\ locked' = TRUE
    /\ UNCHANGED <<gateVars, turnVars, ctxVars>>

\* disconnect, lines 137-164
disconnect(websocket) ==
    /\ connecting = EmptyDict
    /\ LET after == without(active_connections, connection_info, websocket)
       IN  /\ active_connections' = after.active
           /\ connection_info' = after.info
           /\ reg_ret' = [op |-> "disconnect", value |-> after.user_id]
           /\ reg_call' = [op |-> "disconnect", websocket |-> websocket,
                           user_id |-> None, client_ip |-> None]
    /\ UNCHANGED <<connection_attempts, ip_connection_attempts, connecting,
                   clock, attempts_made, sending>>
    /\ locked' = TRUE
    /\ UNCHANGED <<gateVars, turnVars, ctxVars>>

InitSeq ==
    /\ RegIdle
    /\ GateIdle
    /\ TurnIdle
    /\ CtxIdle

NextSeq ==
    \/ \E ws \in FreeSockets, u \in SeqUsers, ip \in SeqClientIps, accepted \in BOOLEAN :
            connect(ws, u, ip, accepted)
    \/ \E ws \in SeqSockets : disconnect(ws)
    \/ Tick

SpecSeq == InitSeq /\ [][NextSeq]_vars

\* ---- the same calls for two users on a few sockets

MaxPairSockets == 2
PairSockets == 1..MaxPairSockets

\* lines 216-219: disconnect applied to each socket of a set
RECURSIVE without_all(_, _, _)
without_all(active, info, sockets) ==
    IF sockets = {}
    THEN [active |-> active, info |-> info]
    ELSE LET ws == CHOOSE x \in sockets : \A y \in sockets : x <= y
             after == without(active, info, ws)
         IN  without_all(after.active, after.info, sockets \ {ws})

\* send_to_user, lines 188-221, with no other call in between; failing are
\* the sockets whose send_json raises
send_to_user(user_id, failing) ==
    /\ connecting = EmptyDict
    /\ failing \subseteq Get(active_connections, user_id, {})
    /\ LET targets == Get(active_connections, user_id, {})
           after == without_all(active_connections, connection_info, failing)
       IN  /\ active_connections' = after.active
           /\ connection_info' = after.info
           /\ reg_ret' = [op |-> "send_to_user",
                          value |-> Some(Cardinality(targets \ failing))]
           /\ reg_call' = [op |-> "send_to_user", websocket |-> 0,
                           user_id |-> Some(user_id), client_ip |-> None]
    /\ UNCHANGED <<connection_attempts, ip_connection_attempts, connecting,
                   clock, attempts_made, sending>>
    /\ locked' = TRUE
    /\ UNCHANGED <<gateVars, turnVars, ctxVars>>

InitPair ==
    /\ RegIdle
    /\ GateIdle
    /\ TurnIdle
    /\ CtxIdle

NextPair ==
    \/ \E ws \in PairSockets, u \in Users, ip \in SeqClientIps, accepted \in BOOLEAN :
            connect(ws, u, ip, accepted)
    \/ \E ws \in PairSockets : disconnect(ws)
    \/ \E u \in Users, failing \in SUBSET PairSockets : send_to_user(u, failing)

SpecPair == InitPair /\ [][NextPair]_vars

\* ---- send_to_user send by send, with connect and disconnect calls of other
\* tasks between its awaits

\* the sockets the call in progress iterates over
InFlight == IF sending = None THEN {} ELSE sending[1].snapshot

\* lines 203-209: the call begins; the copy of the user's set is taken
\* before the first await
SendBegin(user_id) ==
    /\ sending = None
    /\ connecting = EmptyDict
    /\ IF user_id \notin DOMAIN active_connections
       THEN /\ reg_ret' = [op |-> "send_to_user", value |-> Some(0)]
            /\ reg_call' = [op |-> "send_to_user", websocket |-> 0,
                            user_id |-> Some(user_id), client_ip |-> None]
            /\ UNCHANGED sending
       ELSE /\ sending' = Some([user_id |-> user_id,
                                snapshot |-> active_connections[user_id],
                                todo |-> active_connections[user_id],
                                sent_count |-> 0,
                                disconnected |-> {}])
            /\ UNCHANGED <<reg_ret, reg_call>>
    /\ UNCHANGED <<active_connections, connection_info, connection_attempts,
                   ip_connection_attempts, connecting, clock, attempts_made,
                   locked>>
    /\ UNCHANGED <<gateVars, turnVars, ctxVars>>

\* mutant: a failed send ends the iteration
SendOne_aborts(websocket, ok) ==
    /\ sending # None
    /\ websocket \in sending[1].todo
    /\ sending' = Some([sending[1] EXCEPT
            !.todo = IF ok THEN @ \ {websocket} ELSE {},
            !.sent_count = IF ok THEN @ + 1 ELSE @,
            !.disconnected = IF ok THEN @ ELSE @ \cup {websocket}])
    /\ UNCHANGED <<active_connections, connection_info, connection_attempts,
                   ip_connection_attempts, connecting, clock, reg_ret, reg_call,
                   attempts_made, locked>>
    /\ UNCHANGED <<gateVars, turnVars, ctxVars>>

\* lines 209-215: one iteration; send_json returns or raises
SendOne(websocket, ok) ==
    /\ sending # None
    /\ websocket \in sending[1].todo
    /\ sending' = Some([sending[1] EXCEPT
            !.todo = @ \ {websocket},
            !.sent_count = IF ok THEN @ + 1 ELSE @,
            !.disconnected = IF ok THEN @ ELSE @ \cup {websocket}])
    /\ UNCHANGED <<active_connections, connection_info, connection_attempts,
                   ip_connection_attempts, connecting, clock, reg_ret, reg_call,
                   attempts_made, locked>>
    /\ UNCHANGED <<gateVars, turnVars, ctxVars>>

\* lines 217-221: the failed sockets are disconnected and the count is
\* returned; the lock is free, so no disconnect waits
SendEnd ==
    /\ sending # None
    /\ sending[1].todo = {}
    /\ LET after == without_all(active_connections, connection_info,
                                sending[1].disconnected)
       IN  /\ active_connections' = after.active
           /\ connection_info' = after.info
    /\ reg_ret' = [op |-> "send_to_user", value |-> Some(sending[1].sent_count)]
    /\ reg_call' = [op |-> "send_to_user", websocket |-> 0,
                    user_id |-> Some(sending[1].user_id), client_ip |-> None]
    /\ sending' = None
    /\ locked' = TRUE
    /\ UNCHANGED <<connection_attempts, ip_connection_attempts, connecting,
                   clock, attempts_made>>
    /\ UNCHANGED <<gateVars, turnVars, ctxVars>>

InitSend ==
    /\ RegIdle
    /\ GateIdle
    /\ TurnIdle
    /\ CtxIdle

\* a socket the call iterates over is not given to a new connection
NextSend ==
    \/ \E ws \in PairSockets \ InFlight, u \in Users, ip \in SeqClientIps, accepted \in BOOLEAN :
            connect(ws, u, ip, accepted)
    \/ \E ws \in PairSockets : disconnect(ws)
    \/ \E u \in Users : SendBegin(u)
    \/ \E ws \in PairSockets, ok \in BOOLEAN : SendOne(ws, ok)
    \/ SendEnd

SpecSend == InitSend /\ [][NextSend]_vars

\* ---- the session metadata of a connection

MaxCount == 2       \* messages counted on one connection

MetaPhases == {"goal_setting", "tracking"}

MetaCall(op, websocket, user_id) ==
    [op |-> op, websocket |-> websocket, user_id |-> user_id, client_ip |-> None]

\* mutant: an unknown connection is given a counter
increment_message_count_creates(websocket) ==
    /\ connecting = EmptyDict
    /\ LET count == IF websocket \in DOMAIN connection_info
                    THEN connection_info[websocket].message_count ELSE 0
       IN  /\ count < MaxCount
           /\ connection_info' = Put(connection_info, websocket,
                    [user_id |-> "u1", user_phase |-> "goal_setting",
                     client_ip |-> None, message_count |-> count + 1])
           /\ reg_ret' = [op |-> "increment_message_count",
                          value |-> Some(count + 1)]
    /\ reg_call' = MetaCall("increment_message_count", websocket, None)
    /\ locked' = FALSE
    /\ UNCHANGED <<active_connections, connection_attempts,
                   ip_connection_attempts, connecting, clock, attempts_made,
                   sending>>
    /\ UNCHANGED <<gateVars, turnVars, ctxVars>>

\* increment_message_count, lines 285-300: a plain method that takes no lock
increment_message_count(websocket) ==
    /\ connecting = EmptyDict
    /\ IF websocket \in DOMAIN connection_info
       THEN /\ connection_info[websocket].message_count < MaxCount
            /\ connection_info' = [connection_info EXCEPT
                    ![websocket].message_count = @ + 1]
            /\ reg_ret' = [op |-> "increment_message_count",
                           value |-> Some(connection_info[websocket].message_count + 1)]
       ELSE /\ reg_ret' = [op |-> "increment_message_count", value |-> Some(0)]
            /\ UNCHANGED connection_info
    /\ reg_call' = MetaCall("increment_message_count", websocket, None)
    /\ locked' = FALSE
    /\ UNCHANGED <<active_connections, connection_attempts,
                   ip_connection_attempts, connecting, clock, attempts_made,
                   sending>>
    /\ UNCHANGED <<gateVars, turnVars, ctxVars>>

\* reset_message_count, lines 319-327: a plain method that takes no lock
reset_message_count(websocket) ==
    /\ connecting = EmptyDict
    /\ connection_info' =
            IF websocket \in DOMAIN connection_info
            THEN [connection_info EXCEPT ![websocket].message_count = 0]
            ELSE connection_info
    /\ reg_ret' = [op |-> "reset_message_count", value |-> None]
    /\ reg_call' = MetaCall("reset_message_count", websocket, None)
    /\ locked' = FALSE
    /\ UNCHANGED <<active_connections, connection_attempts,
                   ip_connection_attempts, connecting, clock, attempts_made,
                   sending>>
    /\ UNCHANGED <<gateVars, turnVars, ctxVars>>

\* update_user_phase, lines 271-283: one section under the lock
update_user_phase(user_id, new_phase) ==
    /\ connecting = EmptyDict
    /\ connection_info' =
            [ws \in DOMAIN connection_info |->
                IF ws \in Get(active_connections, user_id, {})
                THEN [connection_info[ws] EXCEPT !.user_phase = new_phase]
                ELSE connection_info[ws]]
    /\ reg_ret' = [op |-> "update_user_phase", value |-> None]
    /\ reg_call' = MetaCall("update_user_phase", 0, Some(user_id))
    /\ locked' = TRUE
    /\ UNCHANGED <<active_connections, connection_attempts,
                   ip_connection_attempts, connecting, clock, attempts_made,
                   sending>>
    /\ UNCHANGED <<gateVars, turnVars, ctxVars>>

InitMeta ==
    /\ RegIdle
    /\ GateIdle
    /\ TurnIdle
    /\ CtxIdle

NextMeta ==
    \/ \E ws \in PairSockets, u \in RegUsers, ip \in SeqClientIps, accepted \in BOOLEAN :
            connect(ws, u, ip, accepted)
    \/ \E ws \in PairSockets : disconnect(ws)
    \/ \E ws \in PairSockets : increment_message_count(ws)
    \/ \E ws \in PairSockets : reset_message_count(ws)
    \/ \E u \in Users, phase \in MetaPhases : update_user_phase(u, phase)

SpecMeta == InitMeta /\ [][NextMeta]_vars

----------------------------------------------------------------------------
\* ---- the context service (services/context_service.py), one user

SUMMARIZATION_THRESHOLD == 20
SESSIONS_TO_SUMMARIZE == 10
LIST_LENGTH == 100

\* session records ever inserted
MaxSessions == 23

\* replies of the provider to an extraction or summarization prompt:
\* the call raises, the text holds no JSON object, a JSON object without
\* any valid point, a JSON object with a valid point
Replies == {"error", "garbage", "no_points", "points"}

\* models/session_context.py lines 59-72; created_at is the time of the
\* call for a session record.  The n-th session has session id <<"session", n>>.
create_session_context_document(id, session_id, created_at, points, is_summary, summarized_session_ids) ==
    [id |-> id,
     session_id |-> session_id,
     created_at |-> created_at,
     context_points |-> points,
     is_summary |-> is_summary,
     summarized_session_ids |-> summarized_session_ids]

\* mutant: one message is enough
meaningful_one(history_len) == history_len >= 1

\* lines 96 and 272: the transcript is not empty and has two messages or more
meaningful(history_len) == history_len # 0 /\ ~(history_len < 2)

\* lines 79-226: None, or the document built from the reply
extract_session_context(history_len, reply) ==
    IF ~meaningful(history_len)
    THEN None
    ELSE IF reply \in {"error", "garbage"}
    THEN None
    ELSE Some(create_session_context_document(
                next_id, <<"session", ctx_now + 1>>, ctx_now + 1,
                IF reply = "points" THEN 1 ELSE 0, FALSE, None))

\* lines 228-247: insert_one; a failure is swallowed and None returned
save_session_context(store, session_context, store_ok) ==
    IF store_ok
    THEN [store |-> store \cup {session_context}, id |-> Some(session_context.id)]
    ELSE [store |-> store, id |-> None]

\* sort=[("created_at", 1)]
RECURSIVE SortByCreatedAt(_)
SortByCreatedAt(S) ==
    IF S = {}
    THEN <<>>
    ELSE LET first == CHOOSE r \in S : \A q \in S :
                        \/ r.created_at < q.created_at
                        \/ r.created_at = q.created_at /\ r.id <= q.id
         IN  <<first>> \o SortByCreatedAt(S \ {first})

Prefix(s, n) == SubSeq(s, 1, IF Len(s) < n THEN Len(s) ELSE n)

\* lines 300-320
get_unsummarized_sessions(store) ==
    Prefix(SortByCreatedAt({r \in store : ~r.is_summary}), LIST_LENGTH)

to_summarize_all(unsummarized) == unsummarized

\* line 346
to_summarize(unsummarized) == Prefix(unsummarized, SESSIONS_TO_SUMMARIZE)

\* lines 368-488: None, or the summary document
create_session_summary(sessions, id, reply) ==
    IF Len(sessions) = 0
    THEN None
    ELSE IF \A i \in 1..Len(sessions) : sessions[i].context_points = 0
    THEN None
    ELSE IF reply \in {"error", "garbage"}
    THEN None
    ELSE Some(create_session_context_document(
                id, <<"summary", id>>, sessions[1].created_at,
                IF reply = "points" THEN 1 ELSE 0, TRUE,
                Some([i \in 1..Len(sessions) |-> sessions[i].session_id])))

\* mutant: the count of unsummarized records is not tested
maybe_summarize_always(store, id, reply, store_ok, delete_ok) ==
    LET batch == to_summarize(get_unsummarized_sessions(store))
        summary == create_session_summary(batch, id, reply)
        saved == save_session_context(store, summary[1], store_ok)
        session_ids == {batch[i].id : i \in 1..Len(batch)}
    IN  IF summary = None
        THEN [store |-> store, triggered |-> TRUE, summary |-> None,
              summary_id |-> None, deleted |-> FALSE]
        ELSE [store |-> {r \in saved.store : r.id \notin session_ids},
              triggered |-> TRUE, summary |-> summary,
              summary_id |-> saved.id, deleted |-> delete_ok]

\* lines 322-366: the store after the call and what the call did
maybe_summarize_old_sessions(store, id, reply, store_ok, delete_ok) ==
    LET unsummarized == get_unsummarized_sessions(store)
        batch == to_summarize(unsummarized)
        summary == create_session_summary(batch, id, reply)
        saved == save_session_context(store, summary[1], store_ok)
        session_ids == {batch[i].id : i \in 1..Len(batch)}
    IN  IF Len(unsummarized) < SUMMARIZATION_THRESHOLD
        THEN [store |-> store, triggered |-> FALSE, summary |-> None,
              summary_id |-> None, deleted |-> FALSE]
        ELSE IF summary = None
        THEN [store |-> store, triggered |-> TRUE, summary |-> None,
              summary_id |-> None, deleted |-> FALSE]
        ELSE IF ~delete_ok
        THEN [store |-> saved.store, triggered |-> TRUE, summary |-> summary,
              summary_id |-> saved.id, deleted |-> FALSE]
        ELSE [store |-> {r \in saved.store : r.id \notin session_ids},
              triggered |-> TRUE, summary |-> summary,
              summary_id |-> saved.id, deleted |-> TRUE]

NoSummarization ==
    [store |-> session_contexts, triggered |-> FALSE, summary |-> None,
     summary_id |-> None, deleted |-> FALSE]

\* lengths of the transcript, supplied or fetched
HistoryLens == {0, 1, 2}

\* lines 249-298, one call running alone
extract_and_save_context(history_len, reply, store_ok, sum_reply, sum_store_ok, delete_ok) ==
    /\ ctx_now < MaxSessions
    /\ LET session_context == extract_session_context(history_len, reply)
           skip == \/ ~meaningful(history_len)
                   \/ session_context = None
                   \/ session_context[1].context_points = 0
           saved == save_session_context(session_contexts, session_context[1],
                                         store_ok)
           done == IF skip \/ saved.id = None
                   THEN NoSummarization
                   ELSE maybe_summarize_old_sessions(saved.store, next_id + 1,
                            sum_reply, sum_store_ok, delete_ok)
           inserted == (IF skip \/ saved.id = None THEN 0 ELSE 1)
                       + (IF done.summary_id # None THEN 1 ELSE 0)
       IN  /\ session_contexts' = done.store
           /\ next_id' = next_id + inserted
           /\ ctx_now' = IF skip \/ saved.id = None THEN ctx_now ELSE ctx_now + 1
           /\ ctx_before' = session_contexts
           /\ ctx_call' = [context_id |-> IF skip THEN None ELSE saved.id,
                           triggered |-> done.triggered,
                           sum_reply |-> IF done.triggered THEN sum_reply ELSE "none",
                           summary |-> done.summary,
                           summary_id |-> done.summary_id,
                           deleted |-> done.deleted,
                           history_len |-> history_len,
                           asked |-> meaningful(history_len)]
    /\ UNCHANGED <<loaded, summarizing>>
    /\ UNCHANGED <<gateVars, turnVars, regVars>>

InitCtx ==
    /\ CtxIdle
    /\ GateIdle
    /\ TurnIdle
    /\ RegIdle

NextCtx ==
    \E history_len \in HistoryLens, reply \in Replies, store_ok \in BOOLEAN,
       sum_reply \in Replies, sum_store_ok \in BOOLEAN, delete_ok \in BOOLEAN :
        extract_and_save_context(history_len, reply, store_ok, sum_reply,
                                 sum_store_ok, delete_ok)

SpecCtx == InitCtx /\ [][NextCtx]_vars

\* ---- extract_and_save_context called by two tasks for the same user, each
\* running from one await to the next

\* session records ever inserted by the two tasks
MaxRaceSessions == 21

Tasks == {"t1", "t2"}

\* where a task is: no entry when it is not in a call
Local(pc, batch, summary) == [pc |-> pc, batch |-> batch, summary |-> summary]

\* lines 277-289: a context with points is extracted and saved
SaveExtracted(task) ==
    /\ task \notin DOMAIN summarizing
    /\ ctx_now < MaxRaceSessions
    /\ session_contexts' = session_contexts \cup
            {create_session_context_document(next_id, <<"session", ctx_now + 1>>,
                                             ctx_now + 1, 1, FALSE, None)}
    /\ next_id' = next_id + 1
    /\ ctx_now' = ctx_now + 1
    /\ summarizing' = Put(summarizing, task, Local("read", <<>>, None))
    /\ UNCHANGED <<ctx_before, ctx_call, loaded>>
    /\ UNCHANGED <<gateVars, turnVars, regVars>>

\* lines 339-346: the unsummarized records are read and counted
ReadUnsummarized(task) ==
    /\ task \in DOMAIN summarizing
    /\ summarizing[task].pc = "read"
    /\ LET unsummarized == get_unsummarized_sessions(session_contexts)
       IN  summarizing' =
                IF Len(unsummarized) < SUMMARIZATION_THRESHOLD
                THEN Pop(summarizing, task)
                ELSE Put(summarizing, task,
                         Local("summarize", to_summarize(unsummarized), None))
    /\ UNCHANGED <<session_contexts, next_id, ctx_now, ctx_before, ctx_call,
                   loaded>>
    /\ UNCHANGED <<gateVars, turnVars, regVars>>

\* line 349: the provider answers the summarization prompt
AwaitSummary(task, reply) ==
    /\ task \in DOMAIN summarizing
    /\ summarizing[task].pc = "summarize"
    /\ LET summary == create_session_summary(summarizing[task].batch, next_id,
                                             reply)
       IN  /\ summarizing' =
                IF summary = None
                THEN Pop(summarizing, task)
                ELSE Put(summarizing, task,
                         Local("save", summarizing[task].batch, summary))
           /\ next_id' = IF summary = None THEN next_id ELSE next_id + 1
    /\ UNCHANGED <<session_contexts, ctx_now, ctx_before, ctx_call, loaded>>
    /\ UNCHANGED <<gateVars, turnVars, regVars>>

\* line 353: the summary is saved
SaveSummary(task, store_ok) ==
    /\ task \in DOMAIN summarizing
    /\ summarizing[task].pc = "save"
    /\ session_contexts' =
            save_session_context(session_contexts, summarizing[task].summary[1],
                                 store_ok).store
    /\ summarizing' = Put(summarizing, task,
                          Local("delete", summarizing[task].batch, None))
    /\ UNCHANGED <<next_id, ctx_now, ctx_before, ctx_call, loaded>>
    /\ UNCHANGED <<gateVars, turnVars, regVars>>

\* lines 356-357: the records of the batch are deleted; a failure is
\* swallowed (lines 362-363)
DeleteSummarized(task, delete_ok) ==
    /\ task \in DOMAIN summarizing
    /\ summarizing[task].pc = "delete"
    /\ LET batch == summarizing[task].batch
           session_ids == {batch[i].id : i \in 1..Len(batch)}
       IN  session_contexts' =
                IF delete_ok
                THEN {r \in session_contexts : r.id \notin session_ids}
                ELSE session_contexts
    /\ summarizing' = Pop(summarizing, task)
    /\ UNCHANGED <<next_id, ctx_now, ctx_before, ctx_call, loaded>>
    /\ UNCHANGED <<gateVars, turnVars, regVars>>

InitRace ==
    /\ CtxIdle
    /\ GateIdle
    /\ TurnIdle
    /\ RegIdle

NextRace ==
    \/ \E task \in Tasks : SaveExtracted(task)
    \/ \E task \in Tasks : ReadUnsummarized(task)
    \/ \E task \in Tasks, reply \in Replies : AwaitSummary(task, reply)
    \/ \E task \in Tasks, store_ok \in BOOLEAN : SaveSummary(task, store_ok)
    \/ \E task \in Tasks, delete_ok \in BOOLEAN : DeleteSummarized(task, delete_ok)

SpecRace == InitRace /\ [][NextRace]_vars

\* ---- load_user_context, applied to stores of many records

SUMMARY_LIST_LENGTH == 100
DEFAULT_LIMIT == 10

\* Bounds of the stores explored
MaxSummaries == 101
MaxRecent == 12

\* numbers of summary records: few, and around the length of the list read
SummaryCounts == {0, 1, 2, MaxSummaries - 2, MaxSummaries - 1, MaxSummaries}
LoadLimits == {1, DEFAULT_LIMIT}

Reverse(s) == [i \in 1..Len(s) |-> s[Len(s) + 1 - i]]

\* sort=[("created_at", 1)] of records that differ in created_at or in _id:
\* a record comes at its rank
SortedByCreatedAt(S) ==
    LET rank == [r \in S |->
                    1 + Cardinality({q \in S :
                            \/ q.created_at < r.created_at
                            \/ q.created_at = r.created_at /\ q.id < r.id})]
    IN  [i \in 1..Cardinality(S) |-> CHOOSE r \in S : rank[r] = i]

\* sort=[("created_at", -1)]
SortByCreatedAtDescending(S) == Reverse(SortedByCreatedAt(S))

\* the store of a user after 10 * n_summaries sessions were summarized ten
\* at a time and n_sessions more were recorded: a summary takes the
\* created_at of the first session it covers (line 472)
StoreOf(n_summaries, n_sessions) ==
    {create_session_context_document(
        i, <<"summary", i>>, SESSIONS_TO_SUMMARIZE * (i - 1) + 1, 1, TRUE,
        Some([k \in 1..SESSIONS_TO_SUMMARIZE |->
                <<"session", SESSIONS_TO_SUMMARIZE * (i - 1) + k>>])) :
        i \in 1..n_summaries}
    \cup
    {create_session_context_document(
        n_summaries + j, <<"session", SESSIONS_TO_SUMMARIZE * n_summaries + j>>,
        SESSIONS_TO_SUMMARIZE * n_summaries + j, 1, FALSE, None) :
        j \in 1..n_sessions}

\* lines 490-527
load_user_context(store, limit) ==
    LET summaries == Prefix(SortedByCreatedAt({r \in store : r.is_summary}),
                            SUMMARY_LIST_LENGTH)
        recent == Prefix(SortByCreatedAtDescending({r \in store : ~r.is_summary}),
                         limit)
    IN  summaries \o Reverse(recent)

\* a call of load_user_context
LoadUserContext(limit) ==
    /\ loaded' = [called |-> TRUE, limit |-> limit,
                  result |-> load_user_context(session_contexts, limit)]
    /\ UNCHANGED <<session_contexts, next_id, ctx_now, ctx_before, ctx_call,
                   summarizing>>
    /\ UNCHANGED <<gateVars, turnVars, regVars>>

InitLoad ==
    /\ \E n_summaries \in SummaryCounts, n_sessions \in 0..MaxRecent :
            /\ session_contexts = StoreOf(n_summaries, n_sessions)
            /\ next_id = n_summaries + n_sessions + 1
            /\ ctx_now = SESSIONS_TO_SUMMARIZE * n_summaries + n_sessions
    /\ ctx_before = {}
    /\ ctx_call = [context_id |-> None, triggered |-> FALSE, sum_reply |-> "none",
                   summary |-> None, summary_id |-> None, deleted |-> FALSE,
                   history_len |-> 0, asked |-> FALSE]
    /\ loaded = [called |-> FALSE, limit |-> 0, result |-> <<>>]
    /\ summarizing = EmptyDict
    /\ GateIdle
    /\ TurnIdle
    /\ RegIdle

NextLoad == \E limit \in LoadLimits : LoadUserContext(limit)

SpecLoad == InitLoad /\ [][NextLoad]_vars

----------------------------------------------------------------------------
(* Properties of the access gate (checked under SpecGate)                  *)

\* the meeting window of the documentation contains the current time
InWindow(i) ==
    /\ meetings[i].scheduled_at - MEETING_WINDOW_BEFORE_MINUTES <= now
    /\ now <= meetings[i].scheduled_at + duration(meetings[i])
                + MEETING_WINDOW_AFTER_MINUTES

\* the user's scheduled or active meetings whose window contains the current time
OpenMeetings(u) ==
    {i \in DOMAIN meetings :
        /\ meetings[i].user_id = u
        /\ meetings[i].status \in {"scheduled", "active"}
        /\ InWindow(i)}

\* the user's scheduled meetings that start after the current time
FutureScheduled(u) ==
    {i \in DOMAIN meetings :
        /\ meetings[i].user_id = u
        /\ meetings[i].status = "scheduled"
        /\ meetings[i].scheduled_at > now}

TrackingCall == gateArgs # None /\ gateArgs[1].user_phase = "tracking"

\* C8: for a tracking-phase user who has a scheduled or active meeting whose
\* window contains the current time, the gate returns can_access = TRUE with
\* the id of such a meeting.
C8_OpenMeetingGrantsAccess ==
    (TrackingCall /\ OpenMeetings(gateArgs[1].user_id) # {}) =>
        /\ access[1].can_access
        /\ access[1].meeting_id # None
        /\ access[1].meeting_id[1] \in OpenMeetings(gateArgs[1].user_id)

\* C9: for a tracking-phase user with no meeting whose window contains the
\* current time, the gate denies access; next_available is the start of the
\* earliest future scheduled meeting minus the before-window constant, and
\* nothing when there is no future scheduled meeting.
C9_DeniedWithNextAvailable ==
    (TrackingCall /\ OpenMeetings(gateArgs[1].user_id) = {}) =>
        /\ ~access[1].can_access
        /\ access[1].meeting_id = None
        /\ LET future == FutureScheduled(gateArgs[1].user_id) IN
           IF future = {}
           THEN access[1].next_available = None
           ELSE /\ access[1].next_available # None
                /\ \E i \in future :
                    /\ \A k \in future :
                          meetings[i].scheduled_at <= meetings[k].scheduled_at
                    /\ access[1].next_available[1] =
                          meetings[i].scheduled_at - MEETING_WINDOW_BEFORE_MINUTES

\* C9 witness: a denied tracking call with two future scheduled meetings at
\* different times
C9_Witness ==
    /\ TrackingCall
    /\ OpenMeetings(gateArgs[1].user_id) = {}
    /\ ~access[1].can_access
    /\ access[1].next_available # None
    /\ \E i, k \in FutureScheduled(gateArgs[1].user_id) :
          meetings[i].scheduled_at < meetings[k].scheduled_at

----------------------------------------------------------------------------
(* Properties of the endpoint (checked under SpecTurn)                     *)

AssistantDocs == {i \in DOMAIN chat_messages : chat_messages[i].role = "assistant"}

SentOfType(type) == {i \in DOMAIN sent : sent[i].type = type}

\* the last step exhausted a stream and left the round loop
LoopExited == step = "end" /\ exit_kind \in {"complete", "cap"}

\* C2: one message turn makes at most 5 provider stream calls; leaving the
\* loop by the round cap happens after exactly 5 calls and ends the turn.
C2_AtMostFiveRounds ==
    /\ stream_calls <= max_tool_rounds
    /\ hpc = "stream" => tool_round = stream_calls
    /\ exit_kind = "cap" => (stream_calls = max_tool_rounds /\ hpc # "stream")

\* C2 witness: the fifth round held a tool call and its end ended the turn
C2_Witness ==
    /\ step = "end"
    /\ exit_kind = "cap"
    /\ stream_calls = max_tool_rounds
    /\ tool_calls_this_round > 0
    /\ hpc = "recv"

\* C3: after an error event of the provider the error text is the single
\* assistant message persisted for the turn and the error event is the last
\* event sent for it.
C3_ErrorIsTerminal ==
    step = "error" =>
        /\ Cardinality(AssistantDocs) = 1
        /\ \A i \in AssistantDocs : chat_messages[i].content = ERROR_TEXT
        /\ sent # <<>>
        /\ sent[Len(sent)].type = "error"

\* exactly one assistant message holds the accumulated text (or the
\* placeholder) and the response event with its id and the token total is
\* the last event sent
OneMessageAndResponse ==
    /\ Cardinality(AssistantDocs) = 1
    /\ \A i \in AssistantDocs :
          /\ chat_messages[i].content =
                (IF full_response = <<>> THEN PLACEHOLDER ELSE full_response)
          /\ sent # <<>>
          /\ sent[Len(sent)].type = "response"
          /\ sent[Len(sent)].data.message_id = i
          /\ sent[Len(sent)].data.tokens_used = tokens_used

\* C4 as stated: whenever the round loop exits by completion or by the cap,
\* one assistant message is persisted and a response event ends the turn.
C4_AlwaysOneMessage == LoopExited => OneMessageAndResponse

\* C4 amended: that holds when text was produced or more than one round ran;
\* a single round with neither text nor tool calls persists no assistant
\* message and sends no event.
C4_OneMessageUnlessEmpty ==
    LoopExited =>
        IF full_response # <<>> \/ stream_calls > 1
        THEN OneMessageAndResponse
        ELSE AssistantDocs = {} /\ sent = <<>>

\* C4 witness: the loop hit the cap with tool calls only, the placeholder is saved
C4_Witness ==
    /\ LoopExited
    /\ exit_kind = "cap"
    /\ full_response = <<>>
    /\ OneMessageAndResponse

\* C5: every tool_call event of the provider is answered by exactly one
\* tool_call event to the client and the turn goes on.
C5_ToolCallAlwaysAnswered ==
    step = "tool_call" =>
        /\ Cardinality(SentOfType("tool_call")) = 1
        /\ hpc = "stream"
        /\ exit_kind = "running"

\* C10: every evaluation of the gate, at admission and before each turn, is
\* made with the phase the user has at that moment.
C10_GateSeesCurrentPhase ==
    gateArgs # None =>
        /\ gateArgs[1].user_phase = gateArgs[1].db_phase
        /\ access[1].user_phase = gateArgs[1].db_phase

----------------------------------------------------------------------------
\* ---- properties of the connection registry

\* C1: under any interleaving of connect and disconnect calls, no user ever
\* has more than MAX_CONNECTIONS_PER_USER (5) registered connections, a
\* connect call made while the user has 5 being refused.
C1_AtMostFiveConnections ==
    \A u \in RegUsers :
        get_user_connection_count(u) <= MAX_CONNECTIONS_PER_USER

----------------------------------------------------------------------------
\* ---- properties of the context service

Unsummarized(store) == {r \in store : ~r.is_summary}
Summaries(store) == {r \in store : r.is_summary}

\* the last call reached the threshold and wrote a summary record
SummaryWritten == ctx_call.summary # None /\ ctx_call.summary_id # None

\* C6: a call that did not write a summary record (provider failure,
\* unparsable reply, failed save of the summary) deletes no record: every
\* record present before the call is still present after it.
C6_NoDeletionWithoutSummary ==
    ~SummaryWritten => ctx_before \subseteq session_contexts

\* the last call started from exactly 20 unsummarized records, persisted a
\* new session record, got a valid summary from the provider and the store
\* accepted the summary and the deletion
TwentyThenSummarized ==
    /\ Cardinality(Unsummarized(ctx_before)) = SUMMARIZATION_THRESHOLD
    /\ ctx_call.context_id # None
    /\ ctx_call.sum_reply \in {"no_points", "points"}
    /\ SummaryWritten
    /\ ctx_call.deleted

\* the 10 oldest records, by creation time, among those present before the call
OldestBefore ==
    {r \in Unsummarized(ctx_before) :
        Cardinality({q \in Unsummarized(ctx_before) :
                        q.created_at < r.created_at}) < SESSIONS_TO_SUMMARIZE}

\* C7: from exactly 20 unsummarized records, an extraction that persists a
\* new session record and gets a valid summary leaves 11 unsummarized records
\* and exactly one new summary record, which lists the session ids of the 10
\* oldest original records; those 10 are gone, and the user has 12 records
\* besides the summary records that existed before.
C7_TwentyBecomeElevenAndOneSummary ==
    TwentyThenSummarized =>
        LET new == Summaries(session_contexts) \ Summaries(ctx_before)
        IN  /\ Cardinality(Unsummarized(session_contexts)) = 11
            /\ Cardinality(new) = 1
            /\ \A s \in new :
                /\ Len(s.summarized_session_ids[1]) = SESSIONS_TO_SUMMARIZE
                /\ {s.summarized_session_ids[1][i] : i \in 1..SESSIONS_TO_SUMMARIZE}
                     = {r.session_id : r \in OldestBefore}
            /\ OldestBefore \cap session_contexts = {}
            /\ Summaries(ctx_before) \subseteq session_contexts
            /\ Cardinality(session_contexts)
                 = Cardinality(Summaries(ctx_before)) + 12

\* the case of C7 for a user whose records were exactly the 20
C7_Witness ==
    /\ TwentyThenSummarized
    /\ Summaries(ctx_before) = {}
    /\ Cardinality(session_contexts) = 12
    /\ Cardinality(Summaries(session_contexts)) = 1

----------------------------------------------------------------------------
\* ---- properties of a denied turn and of the cleanup

\* the last step was a message payload that the gate denied
TurnDenied == step = "message" /\ exit_kind = "denied"

\* C11: when the gate denies a message turn, the endpoint sends exactly one
\* error event carrying the verdict's reason and next_available, persists no
\* message for the turn, makes no provider call, and goes on awaiting
\* payloads on the still registered connection.
C11_DeniedTurnOnlyReportsError ==
    TurnDenied =>
        /\ Len(sent) = 1
        /\ sent[1].type = "error"
        /\ sent[1].data.content = access[1].reason
        /\ sent[1].data.next_available = access[1].next_available
        /\ chat_messages = <<>>
        /\ stream_calls = 0
        /\ hpc = "recv"
        /\ registered

C11_Witness ==
    /\ TurnDenied
    /\ access[1].next_available # None
    /\ Len(sent) = 1

----------------------------------------------------------------------------
\* ---- properties of the registry, its calls made one at a time

\* the step is a call of connect (the clock stands still during a call)
ConnectCall == reg_call'.op = "connect" /\ clock' = clock

\* the step is a call of disconnect
DisconnectCall == reg_call'.op = "disconnect" /\ clock' = clock

\* C12: once 10 connect calls were made for a user id within the last 60
\* seconds, admitted or refused, the next connect call for it returns False.
C12_EleventhAttemptRefused ==
    [][(/\ ConnectCall
        /\ made_before(reg_call'.user_id[1]) >= MAX_CONNECTION_ATTEMPTS_PER_MINUTE)
       => reg_ret'.value = Some(FALSE)]_vars

\* C13: a connect call that returns False leaves the connection sets, the
\* metadata and both attempt logs as they were before the call.
C13_RefusedConnectChangesNothing ==
    [][(ConnectCall /\ reg_ret'.value = Some(FALSE))
       => UNCHANGED <<active_connections, connection_info,
                      connection_attempts, ip_connection_attempts>>]_vars

\* the users in whose connection set a socket is
OwnersOf(ws) == {u \in DOMAIN active_connections : ws \in active_connections[u]}

\* C14: after any sequence of connect, disconnect and send_to_user calls,
\* every socket with metadata is in the set of exactly one user, the one its
\* metadata names, and no socket is in a set without having metadata.
C14_OneOwnerPerConnection ==
    /\ \A ws \in DOMAIN connection_info :
            OwnersOf(ws) = {connection_info[ws].user_id}
    /\ \A u \in DOMAIN active_connections :
            /\ active_connections[u] # {}
            /\ active_connections[u] \subseteq DOMAIN connection_info

\* send_to_user dropped the only connection of one user while the other
\* user keeps one
C14_Witness ==
    /\ reg_call.op = "send_to_user"
    /\ reg_ret.value = Some(0)
    /\ reg_call.user_id[1] \notin DOMAIN active_connections
    /\ DOMAIN connection_info # {}
    /\ connection_attempts # EmptyDict

\* C15: disconnect of a registered socket removes it from its user's set and
\* from the metadata in the one step and returns the owning user id; for a
\* socket the registry does not know it returns None and changes nothing,
\* so a second disconnect of the same socket changes nothing.
C15_DisconnectRemovesOnce ==
    [][DisconnectCall =>
        LET ws == reg_call'.websocket IN
        IF ws \in DOMAIN connection_info
        THEN /\ reg_ret'.value = Some(connection_info[ws].user_id)
             /\ ws \notin DOMAIN connection_info'
             /\ \A u \in DOMAIN active_connections' :
                    ws \notin active_connections'[u]
             /\ \A other \in DOMAIN connection_info \ {ws} :
                    /\ other \in DOMAIN connection_info'
                    /\ connection_info'[other] = connection_info[other]
             /\ UNCHANGED <<connection_attempts, ip_connection_attempts>>
        ELSE /\ reg_ret'.value = None
             /\ UNCHANGED <<active_connections, connection_info,
                            connection_attempts, ip_connection_attempts>>]_vars

\* a registered socket was disconnected while another one stays registered
C15_Witness ==
    /\ reg_call.op = "disconnect"
    /\ reg_ret.value # None
    /\ reg_call.websocket \notin DOMAIN connection_info
    /\ DOMAIN connection_info # {}

----------------------------------------------------------------------------
\* ---- properties of the cleanup

\* C16: when the socket of an admitted connection closes, wherever the
\* endpoint is in its loop or in a turn, the extraction is attempted and the
\* connection is in the end removed from the registry, the extraction
\* failing or not.
C16_ClosedSocketIsCleanedUp ==
    (peer_closed /\ registered)
        ~> (~registered /\ hpc = "closed" /\ extract_calls = 1)

\* the socket closed during a turn and the extraction failed
C16_Witness ==
    /\ peer_closed
    /\ step = "closed_extraction_failed"
    /\ exit_kind = "disconnected"
    /\ ~registered

\* the last step was an admission that the gate granted and the registry
\* refused
RegistryRefused ==
    /\ step = "admission"
    /\ access # None
    /\ access[1].can_access
    /\ hpc = "closed"

\* C17: when the registry refuses the connection the endpoint closes the
\* socket having sent no event, persisted no message and run no context
\* extraction.
C17_RefusedConnectionLeavesNoTrace ==
    RegistryRefused =>
        /\ sent = <<>>
        /\ chat_messages = <<>>
        /\ extract_calls = 0

\* the events of one type among those a step sent
EventsOfType(events, type) ==
    {i \in DOMAIN events : events[i].type = type}

\* the tool_call events of a tool among those a step sent
ResultsOf(events, tool_name) ==
    {i \in DOMAIN events :
        /\ events[i].type = "tool_call"
        /\ events[i].data.tool = tool_name}

\* the step sent the tool_call event of a call of the tool
ResultSent(events, tool_name) == ResultsOf(events, tool_name) # {}

\* a step of the turn that consumes a tool_call event of the stream
ToolStep ==
    /\ hpc = "stream"
    /\ step' = "tool_call"
    /\ round_events' = round_events + 1

\* C18: a create_goal call whose minimal creation succeeded has created the
\* goal, sent focus_goal with the new id, populated the goal and only then
\* sent its tool_call event; one whose minimal creation failed has created
\* nothing and sent no focus_goal.
C18_CreateGoalFocusesBeforeResult ==
    [][ToolStep =>
         \A i \in ResultsOf(sent', "create_goal") :
            LET result == sent'[i].data.tool_result IN
            IF result.goal_id # None
            THEN /\ goals[result.goal_id[1]] = None
                 /\ goals'[result.goal_id[1]] # None
                 /\ result.success
                 /\ i = 2
                 /\ Len(sent') = 2
                 /\ sent'[1] = Event("focus_goal",
                                     [goal_id |-> result.goal_id[1]])
            ELSE /\ goals' = goals
                 /\ ~result.success
                 /\ EventsOfType(sent', "focus_goal") = {}]_vars

C18_Witness ==
    /\ step = "tool_call"
    /\ ResultSent(sent, "create_goal")
    /\ sent[1] = Event("focus_goal", [goal_id |-> "g1"])
    /\ goals["g1"] # None
    /\ goals["g1"][1].content = MARKDOWN

\* a create_goal call whose minimal creation failed
C18_WitnessFailed ==
    /\ step = "tool_call"
    /\ ResultSent(sent, "create_goal")
    /\ ~sent[Len(sent)].data.tool_result.success

\* the steps that process an inbound payload or a new connection
InboundSteps == {"admission", "message", "ping", "ignored", "malformed"}

\* C19: during a turn a provider call starts only when the stream of the
\* round before it is exhausted; a tool call of the stream is executed and
\* its tool_call event sent in the step that consumes it, before any other
\* stream event and before the next provider call; and no inbound payload is
\* processed until the turn is over.
C19_TurnIsSequential ==
    [][hpc = "stream" =>
         /\ step' \notin InboundSteps
         /\ stream_calls' # stream_calls =>
                /\ step' = "end"
                /\ stream_calls' = stream_calls + 1
                /\ round_events' = 0
                /\ tool_calls_this_round # 0
         /\ (ToolStep /\ hpc' = "stream") =>
                /\ sent' # <<>>
                /\ sent'[Len(sent')].type = "tool_call"
                /\ tool_calls_this_round' = tool_calls_this_round + 1
                /\ stream_calls' = stream_calls]_vars

\* a tool call is executed in the second round of a turn
C19_Witness ==
    /\ hpc = "stream"
    /\ step = "tool_call"
    /\ stream_calls = 2
    /\ tool_calls_this_round = 1
    /\ sent # <<>>
    /\ sent[Len(sent)].type = "tool_call"

\* the update_goal and set_goal_phase calls that name the goal "current"
CurrentCalls ==
    {call \in ToolCalls :
        /\ call.tool_name \in {"update_goal", "set_goal_phase"}
        /\ call.tool_input.goal_id = Some("current")}

\* C20: an update_goal or set_goal_phase call on "current" sends its
\* tool_call event and leaves the turn running; with an active_goal_id it
\* focuses and touches that goal only, and a success names it; with none it
\* changes no goal and its result is a failure that carries an error.
C20_CurrentIsTheActiveGoal ==
    [][ToolStep =>
       \A call \in CurrentCalls, fault \in Faults :
          StreamToolCall(call, fault) =>
            LET last == sent'[Len(sent')]
                result == last.data.tool_result
            IN /\ last.type = "tool_call"
               /\ last.data.tool = call.tool_name
               /\ hpc' = "stream"
               /\ IF active_goal_id = None
                  THEN /\ goals' = goals
                       /\ ~result.success
                       /\ result.error # None
                  ELSE /\ sent'[1] = Event("focus_goal",
                                           [goal_id |-> active_goal_id[1]])
                       /\ \A g \in GoalIds \ {active_goal_id[1]} :
                              goals'[g] = goals[g]
                       /\ result.success => result.goal_id = active_goal_id]_vars

\* a call on "current" was refused for want of an active goal
C20_Witness ==
    /\ step = "tool_call"
    /\ hpc = "stream"
    /\ active_goal_id = None
    /\ sent = <<Event("tool_call",
                 [tool |-> "update_goal",
                  tool_result |-> Fail("No active goal in editor to update")])>>

\* a call on "current" updated the active goal
C20_WitnessActive ==
    /\ step = "tool_call"
    /\ active_goal_id = Some("g1")
    /\ Len(sent) = 2
    /\ sent[2].type = "tool_call"
    /\ sent[2].data.tool = "set_goal_phase"
    /\ sent[2].data.tool_result.success
    /\ goals["g1"] # None
    /\ goals["g1"][1].phase = "active"

\* C21: send_to_user iterates over the connections the user has when it is
\* called (none: it returns 0); a failed send does not end the iteration; at
\* its return every connection was attempted, the failed ones are out of the
\* registry, the others are kept, and the count is that of the sends that
\* succeeded.
C21_SendToUserReachesEveryConnection ==
    [][/\ (sending = None /\ sending' # None) =>
            /\ sending'[1].snapshot = active_connections[sending'[1].user_id]
            /\ sending'[1].todo = sending'[1].snapshot
       /\ (sending = None /\ sending' = None /\ reg_ret'.op = "send_to_user") =>
            /\ reg_call'.user_id[1] \notin DOMAIN active_connections
            /\ reg_ret'.value = Some(0)
       /\ (sending # None /\ sending' # None /\ sending' # sending) =>
            /\ Cardinality(sending'[1].todo) = Cardinality(sending[1].todo) - 1
            /\ sending'[1].todo \subseteq sending[1].todo
            /\ sending'[1].snapshot = sending[1].snapshot
       /\ (sending # None /\ sending' = None) =>
            LET call == sending[1]
                succeeded == call.snapshot \ call.disconnected
            IN  /\ call.todo = {}
                /\ call.disconnected \subseteq call.snapshot
                /\ reg_ret' = [op |-> "send_to_user",
                               value |-> Some(Cardinality(succeeded))]
                /\ \A ws \in call.disconnected :
                        /\ ws \notin DOMAIN connection_info'
                        /\ \A u \in DOMAIN active_connections' :
                                ws \notin active_connections'[u]
                /\ \A ws \in DOMAIN connection_info \ call.disconnected :
                        /\ ws \in DOMAIN connection_info'
                        /\ connection_info'[ws] = connection_info[ws]]_vars

\* both connections of a user were attempted: one send failed, the other one
\* succeeded after it
C21_Witness ==
    /\ sending # None
    /\ Cardinality(sending[1].snapshot) = 2
    /\ sending[1].todo = {}
    /\ sending[1].sent_count = 1
    /\ Cardinality(sending[1].disconnected) = 1

\* C22: the session metadata of the connections changes only in calls that
\* hold the registry lock while they write.
C22_MetadataChangesUnderLock ==
    [][connection_info' # connection_info => locked']_vars

\* C26: message_count is 0 when a connection is registered; while the
\* connection stays registered it never decreases except in
\* reset_message_count of that connection; increment_message_count of an
\* unknown connection returns 0 and leaves the metadata as it was.
C26_MessageCountGrowsUntilReset ==
    [][/\ \A ws \in DOMAIN connection_info' \ DOMAIN connection_info :
            connection_info'[ws].message_count = 0
       /\ \A ws \in DOMAIN connection_info' \cap DOMAIN connection_info :
            connection_info'[ws].message_count < connection_info[ws].message_count
                => /\ reg_call' = MetaCall("reset_message_count", ws, None)
                   /\ connection_info'[ws].message_count = 0
       /\ (reg_call'.op = "increment_message_count"
              /\ reg_call'.websocket \notin DOMAIN connection_info)
                => /\ reg_ret'.value = Some(0)
                   /\ connection_info' = connection_info]_vars

\* a counter that was incremented twice, and an increment that found no
\* connection
C26_Witness ==
    /\ \E ws \in DOMAIN connection_info :
            connection_info[ws].message_count = 2
    /\ reg_call.op = "increment_message_count"
    /\ reg_call.websocket \notin DOMAIN connection_info

\* C23: a call of extract_and_save_context on a transcript of 0 or 1
\* messages asks the provider nothing, leaves the store as it was, runs no
\* summarization and returns no context id.
C23_ShortTranscriptIsNoOp ==
    [][ctx_call'.history_len < 2 =>
         /\ ~ctx_call'.asked
         /\ ctx_call'.context_id = None
         /\ ~ctx_call'.triggered
         /\ ctx_call'.summary_id = None
         /\ session_contexts' = session_contexts
         /\ next_id' = next_id]_vars

\* a call on one message made when the store holds records
C23_Witness ==
    /\ ctx_call.history_len = 1
    /\ session_contexts # {}
    /\ ctx_before = session_contexts

\* the last call saved a session record, and so went on to
\* maybe_summarize_old_sessions
SessionSaved == ctx_call.context_id # None

\* C24: when maybe_summarize_old_sessions finds fewer than 20 unsummarized
\* records (the one just saved included) the store stays as the save left
\* it: no summary is inserted, no record is deleted and the provider is not
\* asked for a summary.
C24_BelowThresholdNothingIsSummarized ==
    [][(SessionSaved' /\ Cardinality(Unsummarized(session_contexts)) + 1
                            < SUMMARIZATION_THRESHOLD) =>
         /\ ~ctx_call'.triggered
         /\ ctx_call'.sum_reply = "none"
         /\ ctx_call'.summary = None
         /\ ctx_call'.summary_id = None
         /\ ~ctx_call'.deleted
         /\ session_contexts \subseteq session_contexts'
         /\ Cardinality(session_contexts') = Cardinality(session_contexts) + 1
         /\ Summaries(session_contexts') = Summaries(session_contexts)]_vars

\* the call that leaves 19 unsummarized records
C24_Witness ==
    /\ SessionSaved
    /\ ~ctx_call.triggered
    /\ Cardinality(Unsummarized(session_contexts)) = SUMMARIZATION_THRESHOLD - 1
    /\ session_contexts # ctx_before

\* positions of the summary records and of the session records in a result
SummaryPositions(result) == {i \in DOMAIN result : result[i].is_summary}
SessionPositions(result) == {i \in DOMAIN result : ~result[i].is_summary}

\* the records at a set of positions
RecordsAt(result, positions) == {result[i] : i \in positions}

Ascending(result, positions) ==
    \A i, j \in positions :
        i < j => result[i].created_at <= result[j].created_at

\* the unsummarized records of the store that are among its n newest
NewestSessions(store, n) ==
    {r \in Unsummarized(store) :
        Cardinality({q \in Unsummarized(store) : q.created_at > r.created_at}) < n}

\* the result has the summary records first, oldest first, then the newest
\* session records, oldest first
SummariesThenRecent(result, summaries, recent) ==
    /\ RecordsAt(result, SummaryPositions(result)) = summaries
    /\ Cardinality(SummaryPositions(result)) = Cardinality(summaries)
    /\ Ascending(result, SummaryPositions(result))
    /\ RecordsAt(result, SessionPositions(result)) = recent
    /\ Cardinality(SessionPositions(result)) = Cardinality(recent)
    /\ Ascending(result, SessionPositions(result))
    /\ \A i \in SessionPositions(result), j \in SummaryPositions(result) : j < i

\* C25: load_user_context returns every summary record of the user, oldest
\* first, then the limit newest unsummarized records, oldest first.
C25_SummariesThenRecentSessions ==
    loaded.called =>
        SummariesThenRecent(loaded.result, Summaries(session_contexts),
                            NewestSessions(session_contexts, loaded.limit))

\* C27: for a phase other than tracking the verdict of the gate is a
\* function of the phase: goal_setting is granted access with no meeting id,
\* and any other phase is denied with the invalid-phase reason, whatever
\* the meeting store holds.
C27_VerdictByPhaseAlone ==
    (gateArgs # None /\ gateArgs[1].user_phase # "tracking") =>
        /\ access[1].user_phase = gateArgs[1].user_phase
        /\ access[1].meeting_id = None
        /\ access[1].next_available = None
        /\ IF gateArgs[1].user_phase = "goal_setting"
           THEN access[1].can_access
           ELSE /\ ~access[1].can_access
                /\ access[1].reason = "Invalid user phase"

\* a goal-setting user is granted access while the only meeting of the user
\* is a future one whose window is not open
C27_Witness ==
    /\ gateArgs # None
    /\ gateArgs[1].user_phase = "goal_setting"
    /\ access[1].can_access
    /\ OpenMeetings(gateArgs[1].user_id) = {}
    /\ FutureScheduled(gateArgs[1].user_id) # {}

\* C30: a next_available time reported with a denial to a tracking-phase
\* user is later than the current time.
C30_NextAvailableIsInTheFuture ==
    (TrackingCall /\ ~access[1].can_access /\ access[1].next_available # None) =>
        access[1].next_available[1] > now

\* the connect calls let through for an identifier whose time is within the
\* window that ends now: a call is logged in the locked section that lets it
\* through, and pruning drops only what is outside this window
AdmittedInWindow(attempts_dict, identifier) ==
    Len(clean_old_attempts(Get(attempts_dict, identifier, <<>>)))

\* C28: whatever the interleaving of the connect calls, at most 10 of them
\* are let through for one user id, and for one client address, within the
\* 60 seconds that end at any instant.
C28_AtMostTenAdmittedPerWindow ==
    /\ \A u \in DOMAIN connection_attempts :
            AdmittedInWindow(connection_attempts, u)
                <= MAX_CONNECTION_ATTEMPTS_PER_MINUTE
    /\ \A ip \in DOMAIN ip_connection_attempts :
            AdmittedInWindow(ip_connection_attempts, ip)
                <= MAX_CONNECTION_ATTEMPTS_PER_MINUTE

\* ten calls were let through within the window, the last of them are still
\* awaiting accept() together, and the window has moved since the first call
C28_Witness ==
    /\ \E u \in DOMAIN connection_attempts :
            AdmittedInWindow(connection_attempts, u)
                = MAX_CONNECTION_ATTEMPTS_PER_MINUTE
    /\ Cardinality(DOMAIN connecting) >= 2
    /\ clock > 0

\* the session ids a summary record stands for
SummarizedBy(summary) ==
    {summary.summarized_session_ids[1][i] :
        i \in DOMAIN summary.summarized_session_ids[1]}

\* C29: with two tasks saving contexts of the same user at the same time, no
\* session id is in the summarized_session_ids of two summary records.
C29_SessionSummarizedOnce ==
    \A a, b \in Summaries(session_contexts) :
        a # b => SummarizedBy(a) \cap SummarizedBy(b) = {}

====
